---- MODULE Spec2Model ----
(***************************************************************************)
(* Model of the airbnb-sync reconciliation engine:                         *)
(*   - the Availability Normalizer (feed entry -> nightly slots),           *)
(*   - the Booking Reconciler (feed slots vs. the TidyCal booking store),   *)
(*   - the Mirror Reconciler (principal calendar vs. mirror calendar).      *)
(* Dates are day numbers (day 20 stands for 2025-03-20), times of day are   *)
(* minutes after midnight, a UTC instant string "YYYY-MM-DDTHH:MM:00Z" is   *)
(* the record [day, min] of its date and time-of-day fields.  A text is a   *)
(* sequence of words; lower-casing and substring search work word by word.  *)
(***************************************************************************)
EXTENDS Integers, Sequences, FiniteSets, TLC

VARIABLES
    mode,       \* which part of the program this behaviour exercises
    cfg,        \* listing_cfg of the property being synchronised
    feed,       \* the VEVENTs of the property's Airbnb iCal, in walk order
    store,      \* the TidyCal booking store (server side), in listing order
    bookRuns,   \* history of sync_airbnb_to_tidycal runs (calls issued, stats)
    normOut,    \* result of the last application of a pure function (Normalizer, list, snapshot)
    srcCal,     \* principal Google calendar (written by TidyCal)
    dstCal,     \* mirror Google calendar
    nextEventId,\* the id Google gives the next inserted event
    impl,       \* the mirror reconciler in use: app/sync.py or app/services/mirror_sync.py
    mirrorRuns, \* history of mirror_tidycal_to_airbnb_calendar runs
    job         \* the sync_all() in progress: listings, position, calendars, calls so far

vars == <<mode, cfg, feed, store, bookRuns, normOut, srcCal, dstCal, nextEventId, impl,
          mirrorRuns, job>>

bookVars == <<feed, store, bookRuns, normOut>>
mirrorVars == <<srcCal, dstCal, nextEventId, impl, mirrorRuns>>

----------------------------------------------------------------------------
(* Bounds of the model *)

MaxRuns == 2           \* reconciler runs in one behaviour
MaxFaults == 1         \* store / calendar calls in one behaviour that do not succeed

(* Program constants *)

DaysAhead == 365       \* days_ahead default
TzOffsetMin == 360     \* America/Mexico_City is UTC-06:00
MinutesPerDay == 1440
Today == 18            \* dt.date.today(): the day of the run (2025-03-18)

----------------------------------------------------------------------------
(* Generic helpers *)

Min2(a, b) == IF a <= b THEN a ELSE b
Max2(a, b) == IF a >= b THEN a ELSE b
SetMin(S) == CHOOSE x \in S : \A y \in S : x <= y
SetMax(S) == CHOOSE x \in S : \A y \in S : x >= y

RECURSIVE SortedSeq(_)
\* sorted(S) for a finite set of integers
SortedSeq(S) ==
    IF S = {} THEN <<>>
    ELSE LET m == SetMin(S) IN <<m>> \o SortedSeq(S \ {m})

Range(s) == { s[i] : i \in 1..Len(s) }

----------------------------------------------------------------------------
(* Texts: str.lower() and the `in` substring test *)

\* str.lower() of one word
LowerWord(w) ==
    CASE w = "Reserved" -> "reserved"
      [] w = "RESERVED" -> "reserved"
      [] w = "Airbnb" -> "airbnb"
      [] w = "AIRBNB" -> "airbnb"
      [] w = "Reserva" -> "reserva"
      [] w = "Cabana" -> "cabana"
      [] w = "Cabaña" -> "cabaña"
      [] w = "Loft" -> "loft"
      [] w = "Juan" -> "juan"
      [] w = "Guest@Airbnb.com" -> "guest@airbnb.com"
      [] OTHER -> w

Lower(text) == [i \in 1..Len(text) |-> LowerWord(text[i])]

\* needle in word, for lower-case words
WordHas(w, needle) ==
    CASE needle = "reserved" -> w \in {"reserved"}
      [] needle = "airbnb" -> w \in {"airbnb", "guest@airbnb.com", "airbnb-import@example.com", "airbnb@host"}
      [] OTHER -> w = needle

\* needle in text
Contains(text, needle) == \E i \in 1..Len(text) : WordHas(text[i], needle)

----------------------------------------------------------------------------
(* Time: 'HH:MM' parsing, local <-> UTC *)

RECURSIVE DigitsToInt(_)
\* int("14") from the digit sequence <<1, 4>>
DigitsToInt(ds) ==
    IF ds = <<>> THEN 0
    ELSE 10 * DigitsToInt(SubSeq(ds, 1, Len(ds) - 1)) + ds[Len(ds)]

\* parse_time('HH:MM'): hhmm is the pair of digit sequences around the colon
parse_time(hhmm) == [hour |-> DigitsToInt(hhmm[1]), minute |-> DigitsToInt(hhmm[2])]

\* datetime.combine(day, start_time, tzinfo=TZ_LOCAL).astimezone(utc), formatted:
\* the date and time-of-day fields of the 'Z' string
LocalToUtcStr_NoTz(day, t) == [day |-> day, min |-> t.hour * 60 + t.minute]

LocalToUtcStr(day, t) ==
    LET m == t.hour * 60 + t.minute + TzOffsetMin
    IN [day |-> day + (m \div MinutesPerDay), min |-> m % MinutesPerDay]

\* None (a date that could not be derived)
NoDate == 0 - 1

\* booking_date_from_starts_at_utc: parse the string, convert to TZ_LOCAL, take .date();
\* starts_at.valid = FALSE stands for an empty or unparsable string
booking_date_UtcDate(starts_at) ==
    IF ~starts_at.valid THEN NoDate ELSE starts_at.day

booking_date_from_starts_at_utc(starts_at) ==
    IF ~starts_at.valid THEN NoDate
    ELSE LET m == starts_at.day * MinutesPerDay + starts_at.min - TzOffsetMin
         IN m \div MinutesPerDay

----------------------------------------------------------------------------
(* Availability Normalizer *)

RECURSIVE DaysBetween(_, _)
\* cur = dtstart; while cur < dtend: days.append(cur); cur += 1 day
DaysBetween(cur, dtend) ==
    IF cur < dtend THEN <<cur>> \o DaysBetween(cur + 1, dtend) ELSE <<>>

\* the `days` list of _build_airbnb_daily_slots_for_component
ComponentDays_NoDegenerate(dtstart, dtend) == DaysBetween(dtstart, dtend)

ComponentDays_NoLastNight(dtstart, dtend) ==
    IF dtend <= dtstart THEN <<dtstart>> ELSE DaysBetween(dtstart, dtend - 1)

ComponentDays(dtstart, dtend) ==
    IF dtend <= dtstart THEN <<dtstart>> ELSE DaysBetween(dtstart, dtend)

\* the "reserved" filter on the VEVENT's SUMMARY
IsReservation(summary) == Contains(Lower(summary), "reserved")

\* one slot of a night
MakeSlot(day, start_time) ==
    [date |-> day,
     start_local |-> [day |-> day, min |-> start_time.hour * 60 + start_time.minute],
     start_utc_str |-> [valid |-> TRUE] @@ LocalToUtcStr(day, start_time)]

_build_airbnb_daily_slots_for_component(component, listing_cfg) ==
    IF ~IsReservation(component.summary) THEN <<>>
    ELSE LET days == ComponentDays(component.dtstart, component.dtend)
             start_time == parse_time(listing_cfg.init_time)
         IN [i \in 1..Len(days) |-> MakeSlot(days[i], start_time)]

RECURSIVE AddSlots(_, _)
\* for slot in daily_slots: if key not in slots_by_start_utc: slots_by_start_utc[key] = slot
AddSlots(acc, slots) ==
    IF slots = <<>> THEN acc
    ELSE LET s == Head(slots)
             seen == \E i \in 1..Len(acc) : acc[i].start_utc_str = s.start_utc_str
         IN AddSlots(IF seen THEN acc ELSE Append(acc, s), Tail(slots))

RECURSIVE CollectFrom(_, _, _)
CollectFrom(acc, cal, listing_cfg) ==
    IF cal = <<>> THEN acc
    ELSE CollectFrom(
            AddSlots(acc, _build_airbnb_daily_slots_for_component(Head(cal), listing_cfg)),
            Tail(cal), listing_cfg)

\* the dict start_utc_str -> slot, as its values in insertion order
collect_airbnb_slots_from_calendar(cal, listing_cfg) == CollectFrom(<<>>, cal, listing_cfg)

----------------------------------------------------------------------------
(* TidyCal connector: list (paginated), create, cancel *)

MAX_TIDYCAL_PAGES == 50
PageSize == 2          \* bookings the server puts on one page

\* GET /bookings?starts_at=<start_date>T00:00:00Z : what the server holds from there on
ServerMatching(st, start_date) ==
    SelectSeq(st, LAMBDA b : b.starts_at.valid => b.starts_at.day >= start_date)

\* page number `page` of the server's answer
ServerPage(matching, page) ==
    SubSeq(matching, (page - 1) * PageSize + 1, Min2(page * PageSize, Len(matching)))

\* if page > MAX_TIDYCAL_PAGES: break
PageLimitReached_Never(page) == FALSE

PageLimitReached(page) == page > MAX_TIDYCAL_PAGES

RECURSIVE FetchPages(_, _, _, _)
\* the `while True` loop; the request for page failPage (0: none) raises or answers >= 400
FetchPages(matching, page, failPage, all_bookings) ==
    IF page = failPage THEN all_bookings
    ELSE LET page_items == ServerPage(matching, page)
         IN IF page_items = <<>> THEN all_bookings
            ELSE IF PageLimitReached(page + 1) THEN all_bookings \o page_items
            ELSE FetchPages(matching, page + 1, failPage, all_bookings \o page_items)

RECURSIVE PageRequests(_, _, _)
\* the requests.get calls the `while True` loop issues, counted
PageRequests(matching, page, failPage) ==
    IF page = failPage THEN 1
    ELSE IF ServerPage(matching, page) = <<>> THEN 1
    ELSE IF PageLimitReached(page + 1) THEN 1
    ELSE 1 + PageRequests(matching, page + 1, failPage)

\* the client-side filter: parsable starts_at, UTC date in [start_date, end_date), not cancelled
InListRange(b, start_date, end_date) ==
    /\ b.starts_at.valid
    /\ start_date <= b.starts_at.day
    /\ b.starts_at.day < end_date
    /\ ~b.cancelled

tidycal_list_bookings_in_range(st, start_date, end_date, failPage) ==
    SelectSeq(FetchPages(ServerMatching(st, start_date), 1, failPage, <<>>),
              LAMBDA b : InListRange(b, start_date, end_date))

\* number of page requests the loop can issue against this store
PagesOf(st, start_date) ==
    Min2(((Len(ServerMatching(st, start_date)) + PageSize - 1) \div PageSize) + 1,
         MAX_TIDYCAL_PAGES)

CreateStatuses == {"201", "409", "500", "net"}
CancelStatuses == {"200", "400", "500", "net"}

\* tidycal_create_booking_for_airbnb_slot: True only on 201
CreateOk_ConflictToo(status) == status \in {"201", "409"}

CreateOk(status) == status = "201"

\* tidycal_cancel_booking: True on 200 and on 400 (already cancelled)
CancelOk_Strict(status) == status = "200"

CancelOk(status) == status \in {"200", "400"}

\* the server's side of a create call
ServerCreate(st, call, status) ==
    IF status = "201"
    THEN Append(st, [id |-> Len(st) + 1,
                     booking_type_id |-> call.booking_type_id,
                     email |-> call.contact_email,
                     name |-> call.contact_name,
                     starts_at |-> call.starts_at,
                     cancelled |-> FALSE])
    ELSE st

\* the server's side of a cancel call (400: the booking was cancelled already)
ServerCancel(st, booking_id, status) ==
    IF status \in {"200", "400"}
    THEN [i \in 1..Len(st) |->
            IF st[i].id = booking_id THEN [st[i] EXCEPT !.cancelled = TRUE] ELSE st[i]]
    ELSE st

----------------------------------------------------------------------------
(* Booking Reconciler: sync_airbnb_to_tidycal *)

RECURSIVE FirstPerDate(_, _)
\* airbnb_by_date: the first slot of each local date
FirstPerDate(acc, slots) ==
    IF slots = <<>> THEN acc
    ELSE LET s == Head(slots)
             seen == \E i \in 1..Len(acc) : acc[i].date = s.date
         IN FirstPerDate(IF seen THEN acc ELSE Append(acc, s), Tail(slots))

RECURSIVE EverySlot(_, _)
EverySlot(cal, listing_cfg) ==
    IF cal = <<>> THEN <<>>
    ELSE _build_airbnb_daily_slots_for_component(Head(cal), listing_cfg)
         \o EverySlot(Tail(cal), listing_cfg)

AirbnbByDate_EveryEntry(cal, listing_cfg) == EverySlot(cal, listing_cfg)

AirbnbByDate(cal, listing_cfg) ==
    FirstPerDate(<<>>, collect_airbnb_slots_from_calendar(cal, listing_cfg))

\* start_date of the listing window
WindowStart(airbnb_dates) ==
    LET min_date == IF airbnb_dates # {} THEN SetMin(airbnb_dates) ELSE Today
    IN Min2(min_date, Today)

\* end_date of the listing window
WindowEnd(airbnb_dates) ==
    LET max_date == IF airbnb_dates # {} THEN SetMax(airbnb_dates) ELSE Today + DaysAhead
    IN Max2(max_date, Today + DaysAhead)

\* the scope filter: booking type and imported-contact email of this property
IsManaged_TypeOnly(b, listing_cfg) ==
    b.booking_type_id = listing_cfg.tidycal_booking_type_id

IsManaged(b, listing_cfg) ==
    /\ b.booking_type_id = listing_cfg.tidycal_booking_type_id
    /\ b.email = listing_cfg.airbnb_contact_email

RECURSIVE FirstBookingPerDate(_, _)
FirstBookingPerDate(acc, bs) ==
    IF bs = <<>> THEN acc
    ELSE LET b == Head(bs)
             day == booking_date_from_starts_at_utc(b.starts_at)
             seen == \E i \in 1..Len(acc) :
                        booking_date_from_starts_at_utc(acc[i].starts_at) = day
         IN FirstBookingPerDate(
                IF day = NoDate \/ seen THEN acc ELSE Append(acc, b), Tail(bs))

\* existing_by_date: the first managed booking of each local date
ExistingByDate_Last(all_bookings, listing_cfg) ==
    LET managed == SelectSeq(all_bookings, LAMBDA b : IsManaged(b, listing_cfg))
    IN FirstBookingPerDate(<<>>, [i \in 1..Len(managed) |-> managed[Len(managed) + 1 - i]])

ExistingByDate(all_bookings, listing_cfg) ==
    FirstBookingPerDate(<<>>, SelectSeq(all_bookings, LAMBDA b : IsManaged(b, listing_cfg)))

ToCreateDates_All(airbnb_dates, existing_dates) == SortedSeq(airbnb_dates)

ToCreateDates(airbnb_dates, existing_dates) == SortedSeq(airbnb_dates \ existing_dates)

ToCancelDates_All(airbnb_dates, existing_dates) == SortedSeq(existing_dates)

ToCancelDates(airbnb_dates, existing_dates) == SortedSeq(existing_dates \ airbnb_dates)

\* contact_name=f"Reserva Airbnb - {listing_cfg['name']}"
ContactName(listing_cfg) == <<"Reserva", "Airbnb", "-">> \o listing_cfg.name

\* the create calls of one run, in order
CreateCalls(to_create, airbnb_by_date, listing_cfg) ==
    [i \in 1..Len(to_create) |->
        LET slot == CHOOSE s \in Range(airbnb_by_date) : s.date = to_create[i]
        IN [day |-> to_create[i],
            booking_type_id |-> listing_cfg.tidycal_booking_type_id,
            starts_at |-> slot.start_utc_str,
            contact_name |-> ContactName(listing_cfg),
            contact_email |-> listing_cfg.airbnb_contact_email]]

\* the cancel calls of one run, in order (a booking without id is skipped)
CancelCalls(to_cancel, existing_by_date) ==
    LET booking(day) == CHOOSE b \in Range(existing_by_date) :
                            booking_date_from_starts_at_utc(b.starts_at) = day
        targets == SelectSeq(to_cancel, LAMBDA day : booking(day).id # 0)
    IN [i \in 1..Len(targets) |->
            [day |-> targets[i],
             booking_id |-> booking(targets[i]).id,
             starts_at |-> booking(targets[i]).starts_at]]

RECURSIVE ApplyCreates(_, _, _)
ApplyCreates(st, calls, statuses) ==
    IF calls = <<>> THEN st
    ELSE ApplyCreates(ServerCreate(st, Head(calls), Head(statuses)), Tail(calls), Tail(statuses))

RECURSIVE ApplyCancels(_, _, _)
ApplyCancels(st, calls, statuses) ==
    IF calls = <<>> THEN st
    ELSE ApplyCancels(ServerCancel(st, Head(calls).booking_id, Head(statuses)),
                      Tail(calls), Tail(statuses))

CountIf(seq, Test(_)) == Len(SelectSeq(seq, Test))

\* the pre-flight check on listing_cfg
MissingConfig_TypeOnly(listing_cfg) ==
    listing_cfg.tidycal_booking_type_id = 0

MissingConfig(listing_cfg) ==
    \/ listing_cfg.tidycal_booking_type_id = 0
    \/ listing_cfg.airbnb_contact_email = ""

\* Steps 1-3 of a run against store `st`: slots, window, list (the request for
\* page failPage fails), scope filter, diff; the calls steps 4 and 5 will issue.
SyncPlan(st, cal, listing_cfg, failPage) ==
    LET airbnb_by_date == AirbnbByDate(cal, listing_cfg)
        airbnb_dates == { s.date : s \in Range(airbnb_by_date) }
        start_date == WindowStart(airbnb_dates)
        end_date == WindowEnd(airbnb_dates)
        all_bookings == tidycal_list_bookings_in_range(st, start_date, end_date, failPage)
        existing_by_date == ExistingByDate(all_bookings, listing_cfg)
        existing_dates == { booking_date_from_starts_at_utc(b.starts_at) :
                                b \in Range(existing_by_date) }
        to_create == ToCreateDates(airbnb_dates, existing_dates)
        to_cancel == ToCancelDates(airbnb_dates, existing_dates)
    IN [window |-> <<start_date, end_date>>,
        pages |-> IF failPage # 0 THEN failPage ELSE PagesOf(st, start_date),
        failPage |-> failPage,
        listed |-> all_bookings,
        creates |-> CreateCalls(to_create, airbnb_by_date, listing_cfg),
        cancels |-> CancelCalls(to_cancel, existing_by_date)]

\* Steps 4-5: the calls are issued in order, the store answers createSt[i] to the
\* i-th create and cancelSt[i] to the i-th cancel; stats are counted from CreateOk/CancelOk.
SyncRun(st, plan, createSt, cancelSt) ==
    [raised |-> FALSE,
     window |-> plan.window,
     pages |-> plan.pages,
     failPage |-> plan.failPage,
     listed |-> plan.listed,
     creates |-> plan.creates,
     createSt |-> createSt,
     cancels |-> plan.cancels,
     cancelSt |-> cancelSt,
     stats |-> [created |-> CountIf(createSt, CreateOk),
                cancelled |-> CountIf(cancelSt, CancelOk),
                errors |-> CountIf(createSt, LAMBDA x : ~CreateOk(x))
                           + CountIf(cancelSt, LAMBDA x : ~CancelOk(x))],
     storeBefore |-> st]

\* the store once the server has served the calls of a run
StoreAfter(st, run) ==
    ApplyCancels(ApplyCreates(st, run.creates, run.createSt), run.cancels, run.cancelSt)

\* the run that raises ValueError before any call
RaisedRun(st) ==
    [raised |-> TRUE, window |-> <<0, 0>>, pages |-> 0, failPage |-> 0, listed |-> <<>>,
     creates |-> <<>>, createSt |-> <<>>, cancels |-> <<>>, cancelSt |-> <<>>,
     stats |-> [created |-> 0, cancelled |-> 0, errors |-> 0], storeBefore |-> st]

----------------------------------------------------------------------------
(* The orchestrators of app/sync.py: sync_all and sync_listing *)

\* no sync_all in progress: a reconciler is exercised on its own
NoJob ==
    [listings |-> <<>>, pos |-> 0, step |-> "none", trace |-> <<>>, calendars |-> <<>>,
     raisedBy |-> "", airbnb_stats |-> <<>>, tidy_stats |-> <<>>, result |-> <<>>,
     answer |-> [code |-> 0]]

\* tidy_stats = {"created": 0, "deleted": 0, "errors": 0}
ZeroStats == [created |-> 0, deleted |-> 0, errors |-> 0]

\* the result of sync_listing, from the stats of its two reconcilers
ListingResult(airbnb_stats, tidy_stats) ==
    [created |-> airbnb_stats.created + tidy_stats.created,
     updated |-> 0,
     deleted |-> airbnb_stats.cancelled + tidy_stats.deleted,
     errors |-> airbnb_stats.errors + tidy_stats.errors]

\* one external call: the property it is issued for (position in the list, name),
\* the part of sync_listing that issues it, the request
Call(pos, name, phase, op) == [listing |-> pos, name |-> name, phase |-> phase, op |-> op]

Repeat(n, x) == [i \in 1..n |-> x]

\* the calls of one sync_airbnb_to_tidycal run, in the order it issues them
BookCalls(pos, name, run) ==
    Repeat(run.pages, Call(pos, name, "book", "bookings.list"))
    \o Repeat(Len(run.creates), Call(pos, name, "book", "bookings.create"))
    \o Repeat(Len(run.cancels), Call(pos, name, "book", "bookings.cancel"))

\* the calls of one mirror_tidycal_to_airbnb_calendar run, in the order it issues them
MirrorCalls(pos, name, run) ==
    Repeat(Len(run.lists), Call(pos, name, "mirror", "events.list"))
    \o [i \in 1..Len(run.calls) |->
            Call(pos, name, "mirror",
                 IF run.calls[i].op = "insert" THEN "events.insert" ELSE "events.delete")]

\* the statements of sync_listing, in program order
PhaseAfter_MirrorFirst(phase) ==
    CASE phase = "fetch" -> "mirror"
      [] phase = "mirror" -> "book"
      [] phase = "book" -> "next"

PhaseAfter(phase) ==
    CASE phase = "fetch" -> "book"
      [] phase = "book" -> "mirror"
      [] phase = "mirror" -> "next"

\* sync_listing moves on to `phase`; "next" returns to the for loop of sync_all
StepTo(j, phase) ==
    IF phase # "next" THEN [j EXCEPT !.step = phase]
    ELSE LET r == [j EXCEPT !.result = (j.listings[j.pos].cfg.name
                                          :> ListingResult(j.airbnb_stats, j.tidy_stats)) @@ @]
         IN IF j.pos < Len(j.listings) THEN [r EXCEPT !.pos = @ + 1, !.step = "listing"]
            ELSE [r EXCEPT !.step = "done"]

\* an exception leaves function `by`; nothing between it and sync_handler catches it
Raise(j, by) == [j EXCEPT !.step = "raised", !.raisedBy = by]

\* sync_listing after sync_airbnb_to_tidycal returned or raised
JobAfterBook(run) ==
    IF mode # "all" THEN job
    ELSE LET j == [job EXCEPT !.trace = @ \o BookCalls(job.pos, cfg.name, run),
                              !.airbnb_stats = run.stats]
         IN IF run.raised THEN Raise(j, "sync_airbnb_to_tidycal")
            ELSE StepTo(j, PhaseAfter("book"))

\* sync_listing after mirror_tidycal_to_airbnb_calendar returned or raised, the
\* mirror calendar being left as `dst`
JobAfterMirror(run, dst) ==
    IF mode # "all" THEN job
    ELSE LET j == [job EXCEPT !.trace = @ \o MirrorCalls(job.pos, cfg.name, run),
                              !.calendars = [@ EXCEPT ![cfg.mirror_calendar_id] = dst],
                              !.tidy_stats = run.stats]
         IN IF run.returned = "raised" THEN Raise(j, "mirror_tidycal_to_airbnb_calendar")
            ELSE StepTo(j, PhaseAfter("mirror"))

----------------------------------------------------------------------------
(* Inputs of the Booking Reconciler behaviours *)

Cabana == <<"Cabana">>

\* the configured properties (listings.json)
Listing(name, type_id, email, init_time, calendar_id, mirror_id) ==
    [name |-> name, tidycal_booking_type_id |-> type_id, airbnb_contact_email |-> email,
     init_time |-> init_time, tidycal_calendar_id |-> calendar_id,
     mirror_calendar_id |-> mirror_id]

ListingCabana ==
    Listing(Cabana, 1, "airbnb-import@example.com", << <<1, 4>>, <<0, 0>> >>,
            "principal-cabana", "mirror-cabana")

ListingLoft ==
    Listing(<<"Loft">>, 2, "imports@example.com", << <<2, 0>>, <<0, 0>> >>,
            "principal-loft", "mirror-loft")

Listings == { ListingCabana, ListingLoft }

\* entries of listings.json without 'tidycal_booking_type_id', without 'airbnb_contact_email'
ListingNoType ==
    Listing(<<"Loft">>, 0, "airbnb-import@example.com", << <<1, 5>>, <<0, 0>> >>,
            "principal-loft", "mirror-loft")

ListingNoEmail ==
    Listing(Cabana, 1, "", << <<1, 5>>, <<0, 0>> >>, "principal-cabana", "mirror-cabana")

Unconfigured == { ListingNoType, ListingNoEmail }

\* VEVENTs a feed is made of
VEvent(summary, dtstart, dtend) == [summary |-> summary, dtstart |-> dtstart, dtend |-> dtend]

Stay2022 == VEvent(<<"Reserved">>, 20, 22)
Blocked2527 == VEvent(<<"Airbnb", "(Not", "available)">>, 25, 27)
Stay2526 == VEvent(<<"RESERVED">>, 25, 26)
Stay2123 == VEvent(<<"Reserved">>, 21, 23)
StayFar == VEvent(<<"Reserved">>, Today + DaysAhead - 1, Today + DaysAhead + 1)

\* the feeds a behaviour may start with
Feeds ==
    { <<>>, <<Stay2022>>, <<Blocked2527>>, <<Stay2022, Stay2526>>, <<Stay2022, Stay2123>>,
      <<Stay2526, Blocked2527>>, <<StayFar>>, <<Stay2526, StayFar>>,
      <<Stay2022, Stay2022>> }

\* a booking as the store holds it; local day and minute of its start
Booking(type_id, email, day, minute) ==
    [id |-> 0, booking_type_id |-> type_id, email |-> email, name |-> <<"Juan">>,
     starts_at |-> [valid |-> TRUE,
                    day |-> day + ((minute + TzOffsetMin) \div MinutesPerDay),
                    min |-> (minute + TzOffsetMin) % MinutesPerDay],
     cancelled |-> FALSE]

\* the store numbers its bookings
WithIds(bs) == [i \in 1..Len(bs) |-> [bs[i] EXCEPT !.id = i]]

\* the stores a behaviour of property c may start with: of c's type and imported
\* contact ("managed"), of c's type with a guest's email, of another type
InitStores(c) ==
    LET t == parse_time(c.init_time)
        m == t.hour * 60 + t.minute
        managed25 == Booking(c.tidycal_booking_type_id, c.airbnb_contact_email, 25, m)
        managed25b == Booking(c.tidycal_booking_type_id, c.airbnb_contact_email, 25, m + 60)
        managed20 == Booking(c.tidycal_booking_type_id, c.airbnb_contact_email, 20, m + 5)
        direct26 == Booking(c.tidycal_booking_type_id, "juan@example.com", 26, m)
        other27 == Booking(3 - c.tidycal_booking_type_id, c.airbnb_contact_email, 27, m)
    IN { WithIds(bs) : bs \in
            { <<>>, <<managed25>>, <<direct26, other27>>, <<managed25, direct26, other27>>,
              <<managed25, managed25b>>, <<managed20, managed25, direct26>> } }

\* sequences of n statuses
StatusSeqs(n, statuses) == [1..n -> statuses]

\* how many calls of a run did not plainly succeed
Faults(failPage, createSt, cancelSt) ==
    (IF failPage # 0 THEN 1 ELSE 0)
    + CountIf(createSt, LAMBDA x : x # "201")
    + CountIf(cancelSt, LAMBDA x : x # "200")

RECURSIVE FaultsIn(_)
\* ... of a history of runs
FaultsIn(runs) ==
    IF runs = <<>> THEN 0
    ELSE Faults(Head(runs).failPage, Head(runs).createSt, Head(runs).cancelSt)
         + FaultsIn(Tail(runs))

----------------------------------------------------------------------------
(* Booking Reconciler behaviours *)

InitBook ==
    /\ job = NoJob
    /\ mode = "book"
    /\ cfg \in Listings \cup Unconfigured
    /\ feed \in Feeds
    /\ store \in InitStores(cfg)
    /\ bookRuns = <<>>
    /\ normOut = <<>>
    /\ srcCal = <<>>
    /\ dstCal = <<>>
    /\ nextEventId = 1
    /\ impl = "none"
    /\ mirrorRuns = <<>>

\* sync_airbnb_to_tidycal(cal, listing_cfg) raising in the pre-flight check
SyncRaises ==
    /\ mode \in {"book", "all"}
    /\ mode = "all" => job.step = "book"
    /\ Len(bookRuns) < MaxRuns
    /\ MissingConfig(cfg)
    /\ bookRuns' = Append(bookRuns, RaisedRun(store))
    /\ job' = JobAfterBook(RaisedRun(store))
    /\ UNCHANGED <<mode, cfg, feed, store, normOut, mirrorVars>>

\* sync_airbnb_to_tidycal(cal, listing_cfg), one whole run
sync_airbnb_to_tidycal ==
    /\ mode \in {"book", "loop", "all"}
    /\ mode = "all" => job.step = "book"
    /\ Len(bookRuns) < MaxRuns
    /\ ~MissingConfig(cfg)
    /\ \E failPage \in 0..PagesOf(store, WindowStart({ s.date : s \in Range(AirbnbByDate(feed, cfg)) })) :
         LET plan == SyncPlan(store, feed, cfg, failPage)
         IN \E createSt \in StatusSeqs(Len(plan.creates), CreateStatuses),
               cancelSt \in StatusSeqs(Len(plan.cancels), CancelStatuses) :
              /\ FaultsIn(bookRuns) + Faults(failPage, createSt, cancelSt) <= MaxFaults
              /\ LET run == SyncRun(store, plan, createSt, cancelSt)
                 IN /\ bookRuns' = Append(bookRuns, run)
                    /\ store' = StoreAfter(store, run)
                    /\ job' = JobAfterBook(run)
    /\ UNCHANGED <<mode, cfg, feed, normOut, mirrorVars>>

NextBook == sync_airbnb_to_tidycal \/ SyncRaises

SpecBook == InitBook /\ [][NextBook]_vars

----------------------------------------------------------------------------
(* Availability Normalizer behaviours: one VEVENT, one check-in time *)

NormSummaries ==
    { <<"Reserved">>, <<"RESERVED">>, <<"Airbnb", "(Not", "available)">>, <<>> }

NormDates == 19..23

NormInitTimes ==
    { << <<0, 0>>, <<0, 0>> >>, << <<1, 4>>, <<0, 0>> >>, << <<1, 7>>, <<5, 9>> >>,
      << <<1, 8>>, <<0, 0>> >>, << <<2, 3>>, <<5, 9>> >> }

InitNorm ==
    /\ job = NoJob
    /\ mode = "norm"
    /\ \E t \in NormInitTimes :
         cfg = [ListingCabana EXCEPT !.init_time = t]
    /\ \E su \in NormSummaries, a \in NormDates, b \in NormDates :
         feed = <<VEvent(su, a, b)>>
    /\ store = <<>>
    /\ bookRuns = <<>>
    /\ normOut = <<>>
    /\ srcCal = <<>>
    /\ dstCal = <<>>
    /\ nextEventId = 1
    /\ impl = "none"
    /\ mirrorRuns = <<>>

\* _build_airbnb_daily_slots_for_component(component, listing_cfg)
Normalize ==
    /\ mode = "norm"
    /\ normOut = <<>>
    /\ normOut' = << [component |-> feed[1],
                      slots |-> _build_airbnb_daily_slots_for_component(feed[1], cfg)] >>
    /\ UNCHANGED <<mode, cfg, feed, store, bookRuns, mirrorVars, job>>

NextNorm == Normalize

SpecNorm == InitNorm /\ [][NextNorm]_vars

----------------------------------------------------------------------------
(* Booking Reconciler behaviours that start without duplicate managed bookings *)

LiveManagedDates(st, c) ==
    { booking_date_from_starts_at_utc(b.starts_at) :
        b \in { x \in Range(st) : IsManaged(x, c) /\ ~x.cancelled } }

NoDuplicateManaged(st, c) ==
    \A i, j \in 1..Len(st) :
        ( /\ i # j
          /\ IsManaged(st[i], c) /\ IsManaged(st[j], c)
          /\ ~st[i].cancelled /\ ~st[j].cancelled )
        => booking_date_from_starts_at_utc(st[i].starts_at)
           # booking_date_from_starts_at_utc(st[j].starts_at)

InitBookUnique == InitBook /\ NoDuplicateManaged(store, cfg)

SpecBookUnique == InitBookUnique /\ [][NextBook]_vars

----------------------------------------------------------------------------
(* Mirror Reconciler: mirror_tidycal_to_airbnb_calendar *)

\* an event's start or end: {"dateTime": ...} or {"date": ...}, absent, or unparsable
NoTime == [kind |-> "none", day |-> 0, min |-> 0]
AtTime(day, minute) == [kind |-> "dateTime", day |-> day, min |-> minute]
AllDay(day) == [kind |-> "date", day |-> day, min |-> 0]

\* x.get("dateTime") or x.get("date") or ""
TimeText(x) == IF x.kind = "none" THEN NoTime ELSE x

NoKey == [set |-> FALSE, start |-> NoTime, end |-> NoTime, summary |-> <<>>]

\* build_tidycal_key: sha1 of f"{start}|{end}|{summary}"; the digest stands for its input
build_tidycal_key(ev) ==
    [set |-> TRUE, start |-> TimeText(ev.start), end |-> TimeText(ev.end),
     summary |-> ev.summary]

\* the regex of _extract_emails_from_text, on one word
IsEmailWord(w) ==
    w \in {"juan@example.com", "Guest@Airbnb.com", "guest@airbnb.com",
           "airbnb-import@example.com", "imports@example.com"}

\* _extract_emails_from_attendees(attendees) + _extract_emails_from_text(description)
EventEmails(description, attendees) ==
    attendees \o SelectSeq(description, IsEmailWord)

_is_airbnb_google_event_AnyText(summary, description, attendees) ==
    /\ Contains(Lower(summary), "airbnb")
    /\ Contains(Lower(attendees \o description), "airbnb")

_is_airbnb_google_event(summary, description, attendees) ==
    /\ Contains(Lower(summary), "airbnb")
    /\ Contains(Lower(EventEmails(description, attendees)), "airbnb")

\* the base date of a principal event: start.date, else the date part of
\* start.dateTime; NoDate when there is none or date.fromisoformat raises
SourceDay(ev) ==
    IF ev.start.kind \in {"date", "dateTime"} THEN ev.start.day ELSE NoDate

\* a principal event the run skips: cancelled, from Airbnb, or without date
SkipsSource_KeepsCancelled(ev) ==
    \/ _is_airbnb_google_event(ev.summary, ev.description, ev.attendees)
    \/ SourceDay(ev) = NoDate

SkipsSource(ev) ==
    \/ ev.status = "cancelled"
    \/ _is_airbnb_google_event(ev.summary, ev.description, ev.attendees)
    \/ SourceDay(ev) = NoDate

\* description of the mirror event
MirrorDescription(ev, listing_name) ==
    ev.description \o <<"Espejo", "TidyCal", "para">> \o listing_name

\* summary of the mirror event
MirrorSummary(ev) ==
    <<"[Block", "Airbnb]">> \o (IF ev.summary # <<>> THEN ev.summary ELSE <<"Reserva", "TidyCal">>)

\* new_body: the all-day mirror event of a principal event
MirrorBody_KeepEnd(ev, listing_name, src_calendar_id) ==
    [summary |-> MirrorSummary(ev),
     description |-> MirrorDescription(ev, listing_name),
     start_date |-> SourceDay(ev),
     end_date |-> ev.end.day,
     ep |-> [source |-> "tidycal", listing_name |-> listing_name,
             mirror_key |-> build_tidycal_key(ev), src_calendar_id |-> src_calendar_id]]

MirrorBody_NoSrcCalendar(ev, listing_name, src_calendar_id) ==
    [summary |-> MirrorSummary(ev),
     description |-> MirrorDescription(ev, listing_name),
     start_date |-> SourceDay(ev),
     end_date |-> SourceDay(ev) + 1,
     ep |-> [source |-> "tidycal", listing_name |-> listing_name,
             mirror_key |-> build_tidycal_key(ev), src_calendar_id |-> ""]]

MirrorBody(ev, listing_name, src_calendar_id) ==
    [summary |-> MirrorSummary(ev),
     description |-> MirrorDescription(ev, listing_name),
     start_date |-> SourceDay(ev),
     end_date |-> SourceDay(ev) + 1,
     ep |-> [source |-> "tidycal", listing_name |-> listing_name,
             mirror_key |-> build_tidycal_key(ev), src_calendar_id |-> src_calendar_id]]

\* extendedProperties.private of an event the engine did not write
NoEp == [source |-> "", listing_name |-> <<>>, mirror_key |-> NoKey, src_calendar_id |-> ""]

\* ep.get("source") == "tidycal" and ep.get("mirror_key")
IsOwnedMirror_KeyOnly(ev) == ev.ep.mirror_key.set

IsOwnedMirror(ev) == ev.ep.source = "tidycal" /\ ev.ep.mirror_key.set

\* existing_by_key.get(key): the last owned event of dst_events with this key (0: none)
ExistingIndex(dst_events, key) ==
    LET hits == { i \in 1..Len(dst_events) :
                    IsOwnedMirror(dst_events[i]) /\ dst_events[i].ep.mirror_key = key }
    IN IF hits = {} THEN 0 ELSE SetMax(hits)

\* same_dates and same_summary and same_description and same_meta
MirrorMatches(existing, body) ==
    /\ existing.start_date = body.start_date
    /\ existing.end_date = body.end_date
    /\ existing.summary = body.summary
    /\ existing.description = body.description
    /\ existing.ep = body.ep

\* the n-th principal event (0: the sweep) makes the run issue this call
DeleteCall(ev_id, key, n) ==
    [op |-> "delete", id |-> ev_id, key |-> key, src |-> n, body |-> <<>>]
InsertCall(body, n) == [op |-> "insert", id |-> 0, key |-> body.ep.mirror_key, src |-> n,
                        body |-> body]

\* step 3.a of app/services/mirror_sync.py: keep a matching mirror, else delete it
ReplaceCalls_Services_InsertFirst(existing, body, n) ==
    IF MirrorMatches(existing, body) THEN <<>>
    ELSE <<InsertCall(body, n)>>
         \o (IF existing.id # 0 THEN <<DeleteCall(existing.id, body.ep.mirror_key, n)>> ELSE <<>>)

ReplaceCalls_Services(existing, body, n) ==
    IF MirrorMatches(existing, body) THEN <<>>
    ELSE (IF existing.id # 0 THEN <<DeleteCall(existing.id, body.ep.mirror_key, n)>> ELSE <<>>)
         \o <<InsertCall(body, n)>>

\* step 3.a of app/sync.py: always delete the mirror found and create it again
ReplaceCalls_Sync(existing, body, n) ==
    (IF existing.id # 0 THEN <<DeleteCall(existing.id, body.ep.mirror_key, n)>> ELSE <<>>)
    \o <<InsertCall(body, n)>>

\* the calls step 3 issues for the n-th principal event
SourceCalls(ev, n, dst_events, listing_name, src_calendar_id, which) ==
    IF SkipsSource(ev) THEN <<>>
    ELSE LET body == MirrorBody(ev, listing_name, src_calendar_id)
             at == ExistingIndex(dst_events, build_tidycal_key(ev))
         IN IF at = 0 THEN <<InsertCall(body, n)>>
            ELSE IF which = "app.sync" THEN ReplaceCalls_Sync(dst_events[at], body, n)
            ELSE ReplaceCalls_Services(dst_events[at], body, n)

RECURSIVE Step3Calls(_, _, _, _, _, _)
Step3Calls(src_events, n, dst_events, listing_name, src_calendar_id, which) ==
    IF n > Len(src_events) THEN <<>>
    ELSE SourceCalls(src_events[n], n, dst_events, listing_name, src_calendar_id, which)
         \o Step3Calls(src_events, n + 1, dst_events, listing_name, src_calendar_id, which)

\* src_keys: the keys of the principal events that were not skipped
SourceKeys(src_events) ==
    { build_tidycal_key(ev) : ev \in { x \in Range(src_events) : ~SkipsSource(x) } }

\* step 4: whether the sweep deletes this event of dst_events
Swept(ev, src_keys) ==
    /\ ev.ep.source = "tidycal"
    /\ ev.ep.mirror_key.set
    /\ ev.ep.mirror_key \notin src_keys
    /\ ev.id # 0

SweepCalls_FirstOnly(dst_events, src_keys) ==
    LET hit == SelectSeq(dst_events, LAMBDA ev : Swept(ev, src_keys))
    IN [i \in 1..Min2(1, Len(hit)) |-> DeleteCall(hit[i].id, hit[i].ep.mirror_key, 0)]

SweepCalls(dst_events, src_keys) ==
    LET hit == SelectSeq(dst_events, LAMBDA ev : Swept(ev, src_keys))
    IN [i \in 1..Len(hit) |-> DeleteCall(hit[i].id, hit[i].ep.mirror_key, 0)]

\* the Calendar API's side of one call; a delete of an event that is gone fails
RECURSIVE ServeCalendar(_, _, _, _)
ServeCalendar(cal, next_id, calls, statuses) ==
    IF calls = <<>> THEN [cal |-> cal, next_id |-> next_id, possible |-> TRUE]
    ELSE LET c == Head(calls)
             ok == Head(statuses) = "ok"
             there == \E i \in 1..Len(cal) : cal[i].id = c.id
         IN IF c.op = "delete" /\ ok /\ ~there
            THEN [cal |-> cal, next_id |-> next_id, possible |-> FALSE]
            ELSE ServeCalendar(
                    IF ~ok THEN cal
                    ELSE IF c.op = "delete" THEN SelectSeq(cal, LAMBDA ev : ev.id # c.id)
                    ELSE Append(cal, [id |-> next_id] @@ c.body),
                    IF ok /\ c.op = "insert" THEN next_id + 1 ELSE next_id,
                    Tail(calls), Tail(statuses))

\* answers to an insert or delete call that the run survives: .execute() returns,
\* or raises HttpError (a response with an error status)
MirrorStatuses == {"ok", "HttpError"}

\* .execute() raising anything else (no response: timeout, connection lost, name
\* not resolved), which no except clause of the run catches
NoResponse == "OSError"

\* the run that returns before any write: equal calendar ids, or a list that failed
MirrorEarlyReturn(why, lists, src_events, dst_events, errors) ==
    [returned |-> why, lists |-> lists, src_events |-> src_events, dst_events |-> dst_events,
     src_keys |-> {}, calls |-> <<>>, statuses |-> <<>>,
     stats |-> [created |-> 0, deleted |-> 0, errors |-> errors]]

\* One whole run: the lists answer src_events and dst_events, the i-th insert or
\* delete call is answered statuses[i].
MirrorRun(src_events, dst_events, listing_name, src_calendar_id, dst_calendar_id, which, statuses) ==
    LET src_keys == SourceKeys(src_events)
        calls == Step3Calls(src_events, 1, dst_events, listing_name, src_calendar_id, which)
                 \o SweepCalls(dst_events, src_keys)
        Done(op) == Cardinality({ i \in 1..Len(calls) :
                                    calls[i].op = op /\ statuses[i] = "ok" })
    IN [returned |-> "done", lists |-> <<src_calendar_id, dst_calendar_id>>,
        src_events |-> src_events, dst_events |-> dst_events,
        src_keys |-> src_keys, calls |-> calls, statuses |-> statuses,
        stats |-> [created |-> Done("insert"), deleted |-> Done("delete"),
                   errors |-> Cardinality({ i \in 1..Len(calls) : statuses[i] # "ok" })]]

\* The run whose j-th insert or delete call gets no response: the exception leaves
\* the function, the calls after the j-th are never issued and no stats are returned.
MirrorRaisedRun(src_events, dst_events, listing_name, src_calendar_id, dst_calendar_id, which, j) ==
    LET calls == Step3Calls(src_events, 1, dst_events, listing_name, src_calendar_id, which)
                 \o SweepCalls(dst_events, SourceKeys(src_events))
        issued == SubSeq(calls, 1, j)
        Done(op) == Cardinality({ i \in 1..(j - 1) : issued[i].op = op })
    IN [returned |-> "raised", lists |-> <<src_calendar_id, dst_calendar_id>>,
        src_events |-> src_events, dst_events |-> dst_events,
        src_keys |-> SourceKeys(src_events), calls |-> issued,
        statuses |-> [i \in 1..j |-> IF i < j THEN "ok" ELSE NoResponse],
        stats |-> [created |-> Done("insert"), deleted |-> Done("delete"), errors |-> 0]]

\* number of insert and delete calls of a run
MirrorCallCount(src_events, dst_events, listing_name, src_calendar_id, which) ==
    Len(Step3Calls(src_events, 1, dst_events, listing_name, src_calendar_id, which))
    + Len(SweepCalls(dst_events, SourceKeys(src_events)))

----------------------------------------------------------------------------
(* Inputs of the Mirror Reconciler behaviours *)

PEvent(status, start, end, summary, description, attendees) ==
    [status |-> status, start |-> start, end |-> end, summary |-> summary,
     description |-> description, attendees |-> attendees]

\* a guest's direct booking, 14:00 to 11:00 the next day
EvDirect ==
    PEvent("confirmed", AtTime(20, 840), AtTime(21, 660), <<"Juan">>, <<>>,
           <<"juan@example.com">>)
\* the same booking once its description was edited
EvDirectNote ==
    PEvent("confirmed", AtTime(20, 840), AtTime(21, 660), <<"Juan">>, <<"late", "arrival">>,
           <<"juan@example.com">>)
\* a booking imported from the feed, as TidyCal writes it to the principal calendar
EvImported ==
    PEvent("confirmed", AtTime(22, 840), AtTime(23, 660), <<"Reserva", "Airbnb", "-", "Cabana">>,
           <<>>, <<"airbnb-import@example.com">>)
\* title mentions the platform, no email does ("airbnb@host" is no email address)
EvTitleOnly ==
    PEvent("confirmed", AtTime(23, 840), AtTime(24, 660), <<"Juan", "AIRBNB">>,
           <<"via", "airbnb", "airbnb@host">>, <<"juan@example.com">>)
\* title mentions it and so does an email in the description
EvDescEmail ==
    PEvent("confirmed", AtTime(24, 840), AtTime(25, 660), <<"Airbnb", "guest">>,
           <<"contact", "Guest@Airbnb.com">>, <<>>)
\* an email mentions it, the title does not
EvEmailOnly ==
    PEvent("confirmed", AtTime(26, 840), AtTime(27, 660), <<"Juan">>, <<>>,
           <<"guest@airbnb.com">>)
EvCancelled ==
    PEvent("cancelled", AtTime(21, 840), AtTime(22, 660), <<"Juan">>, <<>>,
           <<"juan@example.com">>)
\* the same booking before it was cancelled
EvBeforeCancel == [EvCancelled EXCEPT !.status = "confirmed"]
EvNoDate ==
    PEvent("confirmed", NoTime, NoTime, <<"Juan">>, <<>>, <<"juan@example.com">>)
EvAllDay ==
    PEvent("confirmed", AllDay(25), AllDay(27), <<>>, <<>>, <<>>)

\* the principal calendars a behaviour may start with
Principals ==
    { <<>>, <<EvDirect>>, <<EvDirectNote>>, <<EvDirect, EvImported>>,
      <<EvTitleOnly, EvDescEmail, EvEmailOnly>>, <<EvCancelled, EvNoDate, EvAllDay>>,
      <<EvDirect, EvDirect>>, <<EvDirect, EvDirectNote>>, <<EvBeforeCancel>> }

\* an event somebody else put into the mirror calendar
ForeignEvent ==
    [id |-> 0, summary |-> <<"Mantenimiento">>, description |-> <<>>, start_date |-> 21,
     end_date |-> 22, ep |-> NoEp]

\* events of others that carry half of the origin tag: a mirror_key without the
\* source marker, the source marker without a mirror_key
ForeignKeyOnly ==
    [ForeignEvent EXCEPT !.start_date = 20,
                         !.ep = [NoEp EXCEPT !.mirror_key = build_tidycal_key(EvDirect)]]
ForeignSourceOnly ==
    [ForeignEvent EXCEPT !.start_date = 22, !.ep = [NoEp EXCEPT !.source = "tidycal"]]

\* what others put into the mirror calendar before the first run
ForeignCalendars ==
    { <<>>, <<[ForeignEvent EXCEPT !.id = 1]>>,
      <<[ForeignKeyOnly EXCEPT !.id = 1], [ForeignSourceOnly EXCEPT !.id = 2]>> }

\* a guest's direct booking of the other property, in that property's principal calendar
EvLoftDirect ==
    PEvent("confirmed", AtTime(21, 1200), AtTime(22, 660), <<"Juan">>, <<>>,
           <<"juan@example.com">>)

\* its mirror event, as the other property's run inserts it when both properties
\* are configured with the same mirror calendar id
LoftMirror ==
    [id |-> 0] @@ MirrorBody(EvLoftDirect, ListingLoft.name, ListingLoft.tidycal_calendar_id)

AllOk(n) == [i \in 1..n |-> "ok"]

\* the mirror calendar an earlier run over principal calendar p left behind
MirrorsOf(p, start_cal, c) ==
    LET run == MirrorRun(p, start_cal, c.name, c.tidycal_calendar_id, c.mirror_calendar_id,
                         "app.services.mirror_sync",
                         AllOk(MirrorCallCount(p, start_cal, c.name, c.tidycal_calendar_id,
                                               "app.services.mirror_sync")))
    IN ServeCalendar(start_cal, Len(start_cal) + 1, run.calls, run.statuses).cal

\* the property whose mirror calendar id was set to its principal calendar id
ListingSame ==
    Listing(Cabana, 1, "airbnb-import@example.com", << <<1, 4>>, <<0, 0>> >>,
            "principal-cabana", "principal-cabana")

Impls == {"app.sync", "app.services.mirror_sync"}

----------------------------------------------------------------------------
(* Mirror Reconciler behaviours *)

InitMirror ==
    /\ job = NoJob
    /\ mode = "mirror"
    /\ impl \in Impls
    /\ srcCal \in Principals
    /\ \/ /\ cfg = ListingCabana
          /\ \E p \in Principals, others \in ForeignCalendars,
                shared \in BOOLEAN :
                LET own == MirrorsOf(p, others, cfg)
                IN dstCal = IF shared
                            THEN Append(own, [LoftMirror EXCEPT !.id = Len(own) + 1])
                            ELSE own
       \/ /\ cfg = ListingSame
          /\ dstCal = <<>>
    /\ nextEventId = 10
    /\ mirrorRuns = <<>>
    /\ feed = <<>>
    /\ store = <<>>
    /\ bookRuns = <<>>
    /\ normOut = <<>>

RECURSIVE MirrorFaultsIn(_)
MirrorFaultsIn(runs) ==
    IF runs = <<>> THEN 0
    ELSE Head(runs).stats.errors + (IF Head(runs).returned = "raised" THEN 1 ELSE 0)
         + MirrorFaultsIn(Tail(runs))

\* src_calendar_id == dst_calendar_id: return the zero stats at once
MirrorAborts_AfterLists ==
    /\ cfg.tidycal_calendar_id = cfg.mirror_calendar_id
    /\ mirrorRuns' = Append(mirrorRuns,
            MirrorEarlyReturn("same", <<cfg.tidycal_calendar_id, cfg.mirror_calendar_id>>,
                              srcCal, srcCal, 0))
    /\ UNCHANGED <<dstCal, nextEventId>>

MirrorAborts ==
    /\ cfg.tidycal_calendar_id = cfg.mirror_calendar_id
    /\ mirrorRuns' = Append(mirrorRuns, MirrorEarlyReturn("same", <<>>, <<>>, <<>>, 0))
    /\ UNCHANGED <<dstCal, nextEventId>>

\* events().list of the principal or of the mirror calendar raises HttpError
MirrorListFails ==
    /\ cfg.tidycal_calendar_id # cfg.mirror_calendar_id
    /\ MirrorFaultsIn(mirrorRuns) < MaxFaults
    /\ \E why \in {"src-list-failed", "dst-list-failed"} :
         mirrorRuns' = Append(mirrorRuns,
            MirrorEarlyReturn(why,
                IF why = "dst-list-failed"
                THEN <<cfg.tidycal_calendar_id, cfg.mirror_calendar_id>>
                ELSE <<cfg.tidycal_calendar_id>>,
                IF why = "dst-list-failed" THEN srcCal ELSE <<>>, <<>>, 1))
    /\ UNCHANGED <<dstCal, nextEventId>>

\* events().list of the principal or of the mirror calendar raises something that
\* is no HttpError (no response): the exception leaves the function before any write
MirrorListRaises ==
    /\ cfg.tidycal_calendar_id # cfg.mirror_calendar_id
    /\ MirrorFaultsIn(mirrorRuns) < MaxFaults
    /\ \E lists \in { <<cfg.tidycal_calendar_id>>,
                       <<cfg.tidycal_calendar_id, cfg.mirror_calendar_id>> } :
         mirrorRuns' = Append(mirrorRuns,
            MirrorEarlyReturn("raised", lists, IF Len(lists) = 2 THEN srcCal ELSE <<>>,
                              <<>>, 0))
    /\ UNCHANGED <<dstCal, nextEventId>>

\* both lists answer; steps 3 and 4 issue their calls
MirrorReconciles ==
    /\ cfg.tidycal_calendar_id # cfg.mirror_calendar_id
    /\ \E statuses \in StatusSeqs(
            MirrorCallCount(srcCal, dstCal, cfg.name, cfg.tidycal_calendar_id, impl),
            MirrorStatuses) :
         LET run == MirrorRun(srcCal, dstCal, cfg.name, cfg.tidycal_calendar_id,
                              cfg.mirror_calendar_id, impl, statuses)
             served == ServeCalendar(dstCal, nextEventId, run.calls, statuses)
         IN /\ MirrorFaultsIn(mirrorRuns) + run.stats.errors <= MaxFaults
            /\ served.possible
            /\ mirrorRuns' = Append(mirrorRuns, run)
            /\ dstCal' = served.cal
            /\ nextEventId' = served.next_id

\* both lists answer; the j-th insert or delete call raises something that is no HttpError
MirrorWriteRaises ==
    /\ cfg.tidycal_calendar_id # cfg.mirror_calendar_id
    /\ MirrorFaultsIn(mirrorRuns) < MaxFaults
    /\ \E j \in 1..MirrorCallCount(srcCal, dstCal, cfg.name, cfg.tidycal_calendar_id, impl) :
         LET run == MirrorRaisedRun(srcCal, dstCal, cfg.name, cfg.tidycal_calendar_id,
                                    cfg.mirror_calendar_id, impl, j)
             served == ServeCalendar(dstCal, nextEventId, SubSeq(run.calls, 1, j - 1),
                                     AllOk(j - 1))
         IN /\ served.possible
            /\ mirrorRuns' = Append(mirrorRuns, run)
            /\ dstCal' = served.cal
            /\ nextEventId' = served.next_id

\* mirror_tidycal_to_airbnb_calendar(service, src_calendar_id, dst_calendar_id, listing_name)
mirror_tidycal_to_airbnb_calendar ==
    /\ mode \in {"mirror", "loop", "all"}
    /\ mode = "all" => job.step = "mirror" /\ cfg.mirror_calendar_id # ""
    /\ Len(mirrorRuns) < MaxRuns
    /\ (MirrorAborts \/ MirrorListFails \/ MirrorListRaises \/ MirrorReconciles
        \/ MirrorWriteRaises)
    /\ job' = JobAfterMirror(mirrorRuns'[Len(mirrorRuns')], dstCal')
    /\ UNCHANGED <<mode, cfg, bookVars, srcCal, impl>>

NextMirror == mirror_tidycal_to_airbnb_calendar

SpecMirror == InitMirror /\ [][NextMirror]_vars

\* the reconciler the trigger calls is the one of app/sync.py
\* the mirror calendar is empty before the first run
InitMirrorEmpty == InitMirror /\ dstCal = <<>>

SpecMirrorEmpty == InitMirrorEmpty /\ [][NextMirror]_vars

InitMirrorLive == InitMirror /\ impl = "app.sync"

SpecMirrorLive == InitMirrorLive /\ [][NextMirror]_vars

----------------------------------------------------------------------------
(* Both reconcilers of one property, with TidyCal's own calendar connection between *)

\* the event TidyCal writes to the principal calendar for a booking: titled with
\* the contact's name, the contact as attendee, from the start to 11:00 the next day
EventOfBooking(b) ==
    LET day == booking_date_from_starts_at_utc(b.starts_at)
        m == (b.starts_at.day * MinutesPerDay + b.starts_at.min - TzOffsetMin) % MinutesPerDay
    IN PEvent("confirmed", AtTime(day, m), AtTime(day + 1, 660), b.name, <<>>, <<b.email>>)

\* the principal calendar as TidyCal keeps it: one event per live booking of the type
PrincipalOf(st, c) ==
    LET live == SelectSeq(st, LAMBDA b : ~b.cancelled
                                         /\ b.booking_type_id = c.tidycal_booking_type_id)
    IN [i \in 1..Len(live) |-> EventOfBooking(live[i])]

InitLoop ==
    /\ job = NoJob
    /\ mode = "loop"
    /\ cfg \in Listings
    /\ impl \in Impls
    /\ feed \in { <<Stay2022>>, <<Stay2526>>, <<Blocked2527>> }
    /\ store \in { <<>>,
                   WithIds(<<Booking(cfg.tidycal_booking_type_id, "juan@example.com", 26, 840)>>) }
    /\ srcCal = PrincipalOf(store, cfg)
    /\ dstCal = <<>>
    /\ nextEventId = 1
    /\ mirrorRuns = <<>>
    /\ bookRuns = <<>>
    /\ normOut = <<>>

\* TidyCal brings the principal calendar up to date with the bookings
TidyCalWritesCalendar ==
    /\ mode = "loop"
    /\ srcCal # PrincipalOf(store, cfg)
    /\ srcCal' = PrincipalOf(store, cfg)
    /\ UNCHANGED <<mode, cfg, bookVars, dstCal, nextEventId, impl, mirrorRuns, job>>

NextLoop ==
    \/ sync_airbnb_to_tidycal
    \/ TidyCalWritesCalendar
    \/ mirror_tidycal_to_airbnb_calendar

SpecLoop == InitLoop /\ [][NextLoop]_vars

----------------------------------------------------------------------------
(* sync_all behaviours: every configured property, one after the other *)

\* an entry of LISTINGS_JSON: the fields it gives, the keys it leaves out (.get() of
\* such a key is None, which the code tests like "" or 0), and what its feed URL serves
Entry(c, absent, ical) == [cfg |-> c, absent |-> absent, ical |-> ical]

EntryCabana == Entry(ListingCabana, {}, <<Stay2022>>)
EntryLoft == Entry(ListingLoft, {}, <<Stay2526>>)
\* the second property configured with the mirror calendar of the first
EntryLoftShared ==
    Entry([ListingLoft EXCEPT !.mirror_calendar_id = ListingCabana.mirror_calendar_id],
          {}, <<Stay2526>>)
EntryLoftNoMirror == Entry([ListingLoft EXCEPT !.mirror_calendar_id = ""], {}, <<Stay2526>>)
EntryNoType == Entry(ListingNoType, {"tidycal_booking_type_id"}, <<Stay2526>>)
EntryNoEmail == Entry(ListingNoEmail, {"airbnb_contact_email"}, <<Stay2022>>)
EntryNoPrincipal ==
    Entry([ListingLoft EXCEPT !.tidycal_calendar_id = ""], {"tidycal_calendar_id"}, <<Stay2526>>)
EntryNoUrl == Entry(ListingLoft, {"airbnb_ical_url"}, <<>>)
EntryNoInitTime == Entry(ListingLoft, {"init_time"}, <<Stay2526>>)
EntryNoName == Entry([ListingLoft EXCEPT !.name = <<>>], {"name"}, <<Stay2526>>)

\* the values LISTINGS_JSON may have
ListingsJson ==
    { <<EntryCabana, EntryLoft>>, <<EntryLoft, EntryCabana>>, <<EntryCabana, EntryLoftShared>>,
      <<EntryLoftNoMirror, EntryCabana>>, <<EntryCabana, EntryNoType>>,
      <<EntryNoEmail, EntryLoft>>, <<EntryCabana, EntryNoPrincipal>>,
      <<EntryCabana, EntryNoUrl>>, <<EntryCabana, EntryNoInitTime>>,
      <<EntryNoName, EntryCabana>> }

\* required of load_listings
RequiredKeys == {"name", "airbnb_ical_url", "mirror_calendar_id", "init_time", "finish_time"}

\* load_listings raises RuntimeError
LoadRaises(listings) == \E i \in 1..Len(listings) : listings[i].absent \cap RequiredKeys # {}

\* the account's stores sync_all may find: empty, or an imported booking of each
\* property on a night its feed no longer has
AllStores ==
    { <<>>,
      WithIds(<< Booking(ListingCabana.tidycal_booking_type_id,
                         ListingCabana.airbnb_contact_email, 25, 840),
                 Booking(ListingLoft.tidycal_booking_type_id,
                         ListingLoft.airbnb_contact_email, 20, 1200) >>) }

\* the Google calendars sync_all may find, by calendar id
AllCalendars ==
    { [id \in {"principal-cabana", "principal-loft", "mirror-cabana", "mirror-loft"} |->
          CASE id = "principal-cabana" -> <<EvDirect>>
            [] id = "principal-loft" -> <<EvLoftDirect>>
            [] id = "mirror-cabana" -> m
            [] id = "mirror-loft" -> <<>>] :
      m \in { <<>>, MirrorsOf(<<EvDirectNote>>, <<>>, ListingCabana) } }

InitAll ==
    /\ mode = "all"
    /\ impl = "app.sync"
    /\ job \in { [NoJob EXCEPT !.listings = l, !.step = "start", !.calendars = c] :
                  l \in ListingsJson, c \in AllCalendars }
    /\ cfg = job.listings[1].cfg
    /\ feed = <<>>
    /\ store \in AllStores
    /\ bookRuns = <<>>
    /\ normOut = <<>>
    /\ srcCal = <<>>
    /\ dstCal = <<>>
    /\ nextEventId = 10
    /\ mirrorRuns = <<>>

\* sync_all up to its for loop: get_google_service() (which refreshes an expired
\* token over the network, and raises when it finds no credentials), then load_listings()
sync_all_starts ==
    /\ mode = "all"
    /\ job.step = "start"
    /\ \E creds \in {"valid", "expired", "none"} :
         LET j == [job EXCEPT !.trace =
                      IF creds = "expired" THEN <<Call(0, <<>>, "auth", "token.refresh")>>
                      ELSE <<>>]
         IN job' = IF creds = "none" THEN Raise(j, "get_google_service")
                   ELSE IF LoadRaises(job.listings) THEN Raise(j, "load_listings")
                   ELSE [j EXCEPT !.pos = 1, !.step = "listing"]
    /\ UNCHANGED <<mode, cfg, bookVars, mirrorVars>>

\* sync_listing(service, listing) up to sync_airbnb_to_tidycal: the check of
\* 'tidycal_calendar_id', then fetch_airbnb_calendar (raise_for_status may raise)
sync_listing_starts ==
    /\ mode = "all"
    /\ job.step = "listing"
    /\ LET entry == job.listings[job.pos]
           c == entry.cfg
       IN /\ cfg' = c
          /\ IF c.tidycal_calendar_id = ""
             THEN /\ job' = Raise(job, "sync_listing")
                  /\ UNCHANGED <<feed, srcCal, dstCal>>
             ELSE \E fetched \in BOOLEAN :
                    LET j == [job EXCEPT !.trace =
                                 Append(@, Call(job.pos, c.name, "fetch", "ical.get")),
                                         !.airbnb_stats = <<>>, !.tidy_stats = ZeroStats]
                    IN /\ job' = IF fetched THEN StepTo(j, PhaseAfter("fetch"))
                                 ELSE Raise(j, "fetch_airbnb_calendar")
                       /\ feed' = IF fetched THEN entry.ical ELSE feed
                       /\ srcCal' = job.calendars[c.tidycal_calendar_id]
                       /\ dstCal' = IF c.mirror_calendar_id = "" THEN <<>>
                                    ELSE job.calendars[c.mirror_calendar_id]
    /\ UNCHANGED <<mode, store, bookRuns, normOut, nextEventId, impl, mirrorRuns>>

\* sync_listing with no 'mirror_calendar_id': the mirror is left out
MirrorSkipped ==
    /\ mode = "all"
    /\ job.step = "mirror"
    /\ cfg.mirror_calendar_id = ""
    /\ job' = StepTo(job, PhaseAfter("mirror"))
    /\ UNCHANGED <<mode, cfg, bookVars, mirrorVars>>

\* sync_handler once sync_all returned or raised: 200 with the summary, or 500
sync_handler ==
    /\ mode = "all"
    /\ job.step \in {"done", "raised"}
    /\ job.answer.code = 0
    /\ job' = [job EXCEPT !.answer =
                  IF job.step = "done"
                  THEN [code |-> 200, status |-> "ok", details |-> job.result]
                  ELSE [code |-> 500, status |-> "error", details |-> job.raisedBy]]
    /\ UNCHANGED <<mode, cfg, bookVars, mirrorVars>>

NextAll ==
    \/ sync_handler
    \/ sync_all_starts
    \/ sync_listing_starts
    \/ sync_airbnb_to_tidycal
    \/ SyncRaises
    \/ mirror_tidycal_to_airbnb_calendar
    \/ MirrorSkipped

SpecAll == InitAll /\ [][NextAll]_vars

----------------------------------------------------------------------------
(* tidycal_list_bookings_in_range on its own, against stores of any length *)

\* n live bookings of the property on the nights from day 20 on
LongStore(n) ==
    WithIds([i \in 1..n |-> Booking(ListingCabana.tidycal_booking_type_id,
                                    ListingCabana.airbnb_contact_email, 20 + (i % 7), 840)])

\* up to more bookings than MAX_TIDYCAL_PAGES pages hold: the upstream that has a
\* non-empty page for every request the loop can issue
LongStores == { LongStore(n) : n \in 0..((MAX_TIDYCAL_PAGES + 1) * PageSize) }

InitList ==
    /\ job = NoJob
    /\ mode = "list"
    /\ cfg = ListingCabana
    /\ feed = <<>>
    /\ store \in LongStores
    /\ bookRuns = <<>>
    /\ normOut = <<>>
    /\ srcCal = <<>>
    /\ dstCal = <<>>
    /\ nextEventId = 1
    /\ impl = "none"
    /\ mirrorRuns = <<>>

\* tidycal_list_bookings_in_range(start_date, end_date); the request for page
\* failPage is answered with a status >= 400 or raises requests.RequestException
ListBookings ==
    /\ mode = "list"
    /\ normOut = <<>>
    /\ \E failPage \in 0..MAX_TIDYCAL_PAGES, how \in {"none", "status", "network"} :
         /\ how = "none" <=> failPage = 0
         /\ normOut' = << [failPage |-> failPage,
                           how |-> how,
                           requests |-> PageRequests(ServerMatching(store, Today), 1, failPage),
                           returned |-> tidycal_list_bookings_in_range(
                                            store, Today, Today + DaysAhead, failPage)] >>
    /\ UNCHANGED <<mode, cfg, feed, store, bookRuns, mirrorVars, job>>

NextList == ListBookings

SpecList == InitList /\ [][NextList]_vars

----------------------------------------------------------------------------
(* Availability snapshot: app/services/availability_snapshot.py *)

TIMEZONE == "America/Mexico_City"

\* get_blocked_nights_for_listing(listing_cfg) against store `st`; the request for
\* page failPage of the list fails. Dates are day numbers, which order as their
\* ISO strings do.
get_blocked_nights_for_listing(st, listing_cfg, failPage) ==
    LET today == Today
        end_date == today + DaysAhead
        bookings == tidycal_list_bookings_in_range(st, today, end_date, failPage)
        counted == SelectSeq(bookings, LAMBDA b :
                       /\ b.booking_type_id = listing_cfg.tidycal_booking_type_id
                       /\ ~b.cancelled
                       /\ booking_date_from_starts_at_utc(b.starts_at) >= today)
    IN SortedSeq({ booking_date_from_starts_at_utc(counted[i].starts_at) :
                     i \in 1..Len(counted) })

RECURSIVE Sorted(_)
\* sorted(xs) of a list or of a set in iteration order: every element is kept
Sorted_AsGiven(xs) == xs

Sorted(xs) ==
    IF xs = <<>> THEN <<>>
    ELSE LET m == SetMin(Range(xs))
             k == CHOOSE i \in 1..Len(xs) : xs[i] = m
         IN <<m>> \o Sorted(SubSeq(xs, 1, k - 1) \o SubSeq(xs, k + 1, Len(xs)))

\* .replace("á", "a") ... .replace("ñ", "n") of one lower-case word
Unaccent(w) == IF w = "cabaña" THEN "cabana" ELSE w

\* l["name"].lower().replace(" ", "") and the accent replacements: the words of
\* the result stand for their concatenation
FallbackSlug(name) == [i \in 1..Len(name) |-> Unaccent(LowerWord(name[i]))]

\* the id of a snapshot entry
SlugOf(l) == IF l.info.slug # <<>> THEN l.info.slug ELSE FallbackSlug(l.name)

\* build_availability_snapshot(listings, blocked_by_slug) at local time now_local;
\* of the descriptive fields copied from 'info', capacity stands for all
build_availability_snapshot(listings, blocked_by_slug, now_local) ==
    [generated_at |-> now_local,
     timezone |-> TIMEZONE,
     listings |-> [i \in 1..Len(listings) |->
                     LET l == listings[i]
                         slug == SlugOf(l)
                     IN [id |-> slug,
                         name |-> l.name,
                         capacity |-> l.info.capacity,
                         blocked_nights |-> Sorted(IF slug \in DOMAIN blocked_by_slug
                                                   THEN blocked_by_slug[slug]
                                                   ELSE <<>>)]]]

\* dt.datetime.now(TZ_LOCAL).replace(microsecond=0): 14:00 on the day of the run
NowLocal == [day |-> Today, min |-> 840]

\* entries of listings.json with their 'info': with a slug, without one, without
\* one and an accent in the name
SnapCabana == [name |-> <<"Cabana">>, info |-> [slug |-> <<"cabana-2">>, capacity |-> 2]]
SnapLoft == [name |-> <<"Loft">>, info |-> [slug |-> <<>>, capacity |-> 4]]
SnapAccent == [name |-> <<"Cabaña">>, info |-> [slug |-> <<>>, capacity |-> 2]]

SnapListings ==
    { <<>>, <<SnapCabana>>, <<SnapCabana, SnapLoft>>, <<SnapLoft, SnapCabana>>,
      <<SnapAccent, SnapLoft>>, <<SnapLoft, SnapLoft>> }

\* a collection of blocked nights as Python iterates it: a set in some order, the
\* sorted list get_blocked_nights_for_listing returns, a list that repeats a date
NightCollections == { <<>>, <<21, 20>>, <<20, 21, 25>>, <<25, 20, 25>> }

\* blocked_by_slug: a dict that may lack a slug
BlockedBySlug ==
    UNION { [slugs -> NightCollections] :
            slugs \in { {}, {<<"cabana-2">>}, {<<"loft">>, <<"cabana">>},
                        {<<"cabana-2">>, <<"loft">>} } }

\* the stores the snapshot may read: every store of the Booking Reconciler
\* behaviours, and one with bookings before today and at the horizon
SnapStores(c) ==
    InitStores(c)
    \cup { WithIds(<< Booking(c.tidycal_booking_type_id, c.airbnb_contact_email, Today - 1, 1200),
                      Booking(c.tidycal_booking_type_id, c.airbnb_contact_email, Today, 840),
                      Booking(c.tidycal_booking_type_id, "juan@example.com",
                              Today + DaysAhead - 1, 1200) >>) }

InitSnap ==
    /\ job = NoJob
    /\ mode = "snap"
    /\ cfg \in Listings
    /\ feed = <<>>
    /\ store \in SnapStores(cfg)
    /\ bookRuns = <<>>
    /\ normOut = <<>>
    /\ srcCal = <<>>
    /\ dstCal = <<>>
    /\ nextEventId = 1
    /\ impl = "none"
    /\ mirrorRuns = <<>>

\* one call of get_blocked_nights_for_listing(listing_cfg)
BlockedNights ==
    /\ mode = "snap"
    /\ \A i \in 1..Len(normOut) : normOut[i].fn # "get_blocked_nights_for_listing"
    /\ \E failPage \in 0..PagesOf(store, Today) :
         normOut' = Append(normOut,
            [fn |-> "get_blocked_nights_for_listing",
             failPage |-> failPage,
             nights |-> get_blocked_nights_for_listing(store, cfg, failPage)])
    /\ UNCHANGED <<mode, cfg, feed, store, bookRuns, mirrorVars, job>>

\* one call of build_availability_snapshot(listings, blocked_by_slug)
BuildSnapshot ==
    /\ mode = "snap"
    /\ \A i \in 1..Len(normOut) : normOut[i].fn # "build_availability_snapshot"
    /\ \E listings \in SnapListings, blocked_by_slug \in BlockedBySlug :
         normOut' = Append(normOut,
            [fn |-> "build_availability_snapshot",
             listings |-> listings,
             blocked_by_slug |-> blocked_by_slug,
             snapshot |-> build_availability_snapshot(listings, blocked_by_slug, NowLocal)])
    /\ UNCHANGED <<mode, cfg, feed, store, bookRuns, mirrorVars, job>>

NextSnap == BlockedNights \/ BuildSnapshot

SpecSnap == InitSnap /\ [][NextSnap]_vars

----------------------------------------------------------------------------
(* Properties *)

\* every call of the run was answered with plain success
CleanRun(run) ==
    /\ ~run.raised
    /\ run.failPage = 0
    /\ \A i \in 1..Len(run.createSt) : run.createSt[i] = "201"
    /\ \A i \in 1..Len(run.cancelSt) : run.cancelSt[i] \in {"200", "400"}

\* C1. Idempotence of the Booking Reconciler: when two consecutive runs over the
\* same feed have every list, create and cancel call succeed, the second run
\* issues no create call and no cancel call and returns created = 0, cancelled = 0.
C1_SecondRunIssuesNothing ==
    \A i \in 1..(Len(bookRuns) - 1) :
        (CleanRun(bookRuns[i]) /\ CleanRun(bookRuns[i + 1]))
        => /\ bookRuns[i + 1].creates = <<>>
           /\ bookRuns[i + 1].cancels = <<>>
           /\ bookRuns[i + 1].stats.created = 0
           /\ bookRuns[i + 1].stats.cancelled = 0

\* the local dates the feed reserves: nights of the entries labelled as reservations
FeedSlotDates ==
    UNION { IF e.dtend <= e.dtstart THEN {e.dtstart} ELSE e.dtstart..(e.dtend - 1) :
            e \in { x \in Range(feed) : x.summary \in {<<"Reserved">>, <<"RESERVED">>} } }

\* local date of a UTC start, from its absolute minute
LocalDateOf(starts_at) ==
    (starts_at.day * 1440 + starts_at.min - 6 * 60) \div 1440

\* the local dates of the managed bookings a run's list returned
ListedManagedDates(run) ==
    { LocalDateOf(b.starts_at) :
        b \in { x \in Range(run.listed) :
                  /\ x.booking_type_id = cfg.tidycal_booking_type_id
                  /\ x.email = cfg.airbnb_contact_email } }

CreateDates(run) == { run.creates[i].day : i \in 1..Len(run.creates) }
CancelDates(run) == { run.cancels[i].day : i \in 1..Len(run.cancels) }

\* C2. Diff of one run: create calls are issued exactly for the feed slot dates
\* that have no listed managed booking, cancel calls exactly for the dates of
\* listed managed bookings that are no feed slot date, and no call for a date in both.
C2_DiffByDate ==
    \A i \in 1..Len(bookRuns) :
        LET run == bookRuns[i] IN
        ~run.raised =>
            /\ CreateDates(run) = FeedSlotDates \ ListedManagedDates(run)
            /\ CancelDates(run) = ListedManagedDates(run) \ FeedSlotDates
            /\ (CreateDates(run) \cup CancelDates(run))
                 \cap (FeedSlotDates \cap ListedManagedDates(run)) = {}

\* a run that created for one date, cancelled for another and left a third alone
C2_Witness ==
    \E i \in 1..Len(bookRuns) :
        /\ CreateDates(bookRuns[i]) # {}
        /\ CancelDates(bookRuns[i]) # {}
        /\ FeedSlotDates \cap ListedManagedDates(bookRuns[i]) # {}

\* the booking of the store with this id
BookingById(st, id) == CHOOSE b \in Range(st) : b.id = id

\* C3. Scope safety: a cancel call is only ever addressed to a booking whose
\* booking_type_id is the property's and whose contact email is the property's
\* imported-contact email.
C3_CancelOnlyManaged ==
    \A i \in 1..Len(bookRuns) :
        \A k \in 1..Len(bookRuns[i].cancels) :
            LET b == BookingById(bookRuns[i].storeBefore, bookRuns[i].cancels[k].booking_id)
            IN /\ b.booking_type_id = cfg.tidycal_booking_type_id
               /\ b.email = cfg.airbnb_contact_email

\* a run that cancelled while the listed bookings held, on dates outside the feed,
\* one of the property's type with a guest's email and one of another type
C3_Witness ==
    \E i \in 1..Len(bookRuns) :
        /\ bookRuns[i].cancels # <<>>
        /\ \E b \in Range(bookRuns[i].listed) :
             /\ b.booking_type_id = cfg.tidycal_booking_type_id
             /\ b.email # cfg.airbnb_contact_email
             /\ LocalDateOf(b.starts_at) \notin FeedSlotDates
        /\ \E b \in Range(bookRuns[i].listed) :
             /\ b.booking_type_id # cfg.tidycal_booking_type_id
             /\ b.email = cfg.airbnb_contact_email
             /\ LocalDateOf(b.starts_at) \notin FeedSlotDates

\* C8. Normalizer expansion: an entry labelled as a reservation with end after
\* start yields exactly one slot for each date in [start, end) and none for any
\* other date; an entry without the marker yields no slot.
C8_OneSlotPerNight ==
    \A i \in 1..Len(normOut) :
        LET c == normOut[i].component
            slots == normOut[i].slots
            marked == c.summary \in {<<"Reserved">>, <<"RESERVED">>}
        IN /\ (marked /\ c.dtend > c.dtstart) =>
                /\ \A d \in c.dtstart..(c.dtend - 1) :
                     Cardinality({ k \in 1..Len(slots) : slots[k].date = d }) = 1
                /\ \A k \in 1..Len(slots) :
                     slots[k].date >= c.dtstart /\ slots[k].date < c.dtend
           /\ ~marked => slots = <<>>

\* a reservation of several nights, labelled in another case than the marker, was expanded
C8_Witness ==
    /\ normOut # <<>>
    /\ normOut[1].component.summary = <<"RESERVED">>
    /\ normOut[1].component.dtend > normOut[1].component.dtstart + 1
    /\ Len(normOut[1].slots) > 1

\* C9. Date round trip: booking_date_from_starts_at_utc of a slot's UTC start
\* string is the slot's local date, for any date and check-in time.
C9_DateRoundTrip ==
    \A i \in 1..Len(normOut) :
        \A k \in 1..Len(normOut[i].slots) :
            booking_date_from_starts_at_utc(normOut[i].slots[k].start_utc_str)
              = normOut[i].slots[k].date

\* a slot whose UTC start falls on the day after its local date
C9_Witness ==
    /\ normOut # <<>>
    /\ \E k \in 1..Len(normOut[1].slots) :
         normOut[1].slots[k].start_utc_str.day = normOut[1].slots[k].date + 1

\* minutes after local midnight of the property's check-in time 'HH:MM'
CheckInMinute ==
    (10 * cfg.init_time[1][1] + cfg.init_time[1][2]) * 60
    + 10 * cfg.init_time[2][1] + cfg.init_time[2][2]

\* C10. Create instant: every create call submits the slot's local date at the
\* check-in time, converted from UTC-06:00 to UTC; the reservation 03-20 -> 03-22
\* with check-in 14:00 and an empty store gives exactly two create calls, for
\* 2025-03-20T20:00:00Z and 2025-03-21T20:00:00Z.
C10_CreateInstant ==
    \A i \in 1..Len(bookRuns) :
        LET run == bookRuns[i] IN
        /\ \A k \in 1..Len(run.creates) :
             LET c == run.creates[k] IN
             /\ c.starts_at.valid
             /\ c.starts_at.min \in 0..1439
             /\ c.starts_at.day * 1440 + c.starts_at.min
                  = c.day * 1440 + CheckInMinute + 6 * 60
        /\ ( /\ feed = <<Stay2022>>
             /\ CheckInMinute = 14 * 60
             /\ run.storeBefore = <<>> )
           => /\ Len(run.creates) = 2
              /\ { run.creates[k].starts_at : k \in 1..Len(run.creates) }
                   = { [valid |-> TRUE, day |-> 20, min |-> 20 * 60],
                       [valid |-> TRUE, day |-> 21, min |-> 20 * 60] }

\* the scenario's run has happened
C10_Witness ==
    /\ feed = <<Stay2022>>
    /\ CheckInMinute = 14 * 60
    /\ bookRuns # <<>>
    /\ bookRuns[1].storeBefore = <<>>
    /\ Len(bookRuns[1].creates) = 2

\* a principal event that stems from a booking a run of the Booking Reconciler
\* created: contact name 'Reserva Airbnb - <property>', the imported-contact email
FromCreatedBooking(ev) ==
    /\ ev.summary = <<"Reserva", "Airbnb", "-">> \o cfg.name
    /\ ev.attendees = <<cfg.airbnb_contact_email>>
    /\ \E i \in 1..Len(bookRuns) : \E k \in 1..Len(bookRuns[i].creates) :
         /\ bookRuns[i].createSt[k] = "201"
         /\ bookRuns[i].creates[k].day = ev.start.day

\* C4. No feedback loop: no mirror run ever inserts a mirror event for a principal
\* event that stems from a booking the Booking Reconciler created from the feed.
C4_ImportedNeverMirrored ==
    \A i \in 1..Len(mirrorRuns) :
        \A k \in 1..Len(mirrorRuns[i].calls) :
            LET c == mirrorRuns[i].calls[k] IN
            c.op = "insert" => ~FromCreatedBooking(mirrorRuns[i].src_events[c.src])

\* the title mentions the platform, whatever the case
TitleMentionsPlatform(ev) ==
    \E k \in 1..Len(ev.summary) : ev.summary[k] \in {"Airbnb", "AIRBNB", "airbnb"}

\* an attendee's email or an email address in the description mentions it
SomeEmailMentionsPlatform(ev) ==
    \/ \E k \in 1..Len(ev.attendees) :
         ev.attendees[k] \in {"guest@airbnb.com", "Guest@Airbnb.com", "airbnb-import@example.com"}
    \/ \E k \in 1..Len(ev.description) :
         ev.description[k] \in {"guest@airbnb.com", "Guest@Airbnb.com", "airbnb-import@example.com"}

\* the run passed over its n-th principal event: no insert for it, key not observed
PassedOver(run, n) ==
    /\ \A k \in 1..Len(run.calls) : ~(run.calls[k].op = "insert" /\ run.calls[k].src = n)
    /\ [set |-> TRUE, start |-> run.src_events[n].start, end |-> run.src_events[n].end,
        summary |-> run.src_events[n].summary] \notin run.src_keys

\* C5 as stated. Feedback-exclusion predicate: every non-cancelled principal event
\* is passed over if and only if its title mentions the platform and one of its
\* emails does.
C5_SkippedIffTitleAndEmail ==
    \A i \in 1..Len(mirrorRuns) :
        LET run == mirrorRuns[i] IN
        run.returned = "done" =>
            \A n \in 1..Len(run.src_events) :
                run.src_events[n].status # "cancelled" =>
                    (PassedOver(run, n) <=>
                        (TitleMentionsPlatform(run.src_events[n])
                         /\ SomeEmailMentionsPlatform(run.src_events[n])))

\* C5 amended. Every non-cancelled principal event that has a start date is passed
\* over if and only if its title mentions the platform and one of its emails
\* does; with the title alone it is mirrored.
C5_DatedSkippedIffTitleAndEmail ==
    \A i \in 1..Len(mirrorRuns) :
        LET run == mirrorRuns[i] IN
        run.returned = "done" =>
            \A n \in 1..Len(run.src_events) :
                ( /\ run.src_events[n].status # "cancelled"
                  /\ run.src_events[n].start.kind \in {"date", "dateTime"} ) =>
                    (PassedOver(run, n) <=>
                        (TitleMentionsPlatform(run.src_events[n])
                         /\ SomeEmailMentionsPlatform(run.src_events[n])))

\* one run met an event with title and email, one with the title alone (its
\* description naming the platform outside any email) and one with the email alone
C5_Witness ==
    \E i \in 1..Len(mirrorRuns) :
        /\ mirrorRuns[i].returned = "done"
        /\ mirrorRuns[i].src_events = <<EvTitleOnly, EvDescEmail, EvEmailOnly>>
        /\ PassedOver(mirrorRuns[i], 2)
        /\ ~PassedOver(mirrorRuns[i], 1)
        /\ ~PassedOver(mirrorRuns[i], 3)

\* the owned mirror events of dst_events that carry the key of the n-th principal event
MirrorsOfSource(run, n) ==
    { m \in Range(run.dst_events) :
        /\ m.ep.source = "tidycal"
        /\ m.ep.mirror_key.set
        /\ m.ep.mirror_key.start = run.src_events[n].start
        /\ m.ep.mirror_key.end = run.src_events[n].end
        /\ m.ep.mirror_key.summary = run.src_events[n].summary }

\* the mirror event has the fields the run wants for the n-th principal event
UpToDate(m, run, n) ==
    LET ev == run.src_events[n] IN
    /\ m.start_date = ev.start.day
    /\ m.end_date = ev.start.day + 1
    /\ m.summary = <<"[Block", "Airbnb]">> \o (IF ev.summary = <<>> THEN <<"Reserva", "TidyCal">> ELSE ev.summary)
    /\ m.description = ev.description \o <<"Espejo", "TidyCal", "para">> \o cfg.name
    /\ m.ep.listing_name = cfg.name
    /\ m.ep.src_calendar_id = cfg.tidycal_calendar_id

\* C6. Mirror idempotence: a principal event that already has an owned mirror event
\* with its key and identical fields causes no insert and no delete; a second run
\* over unchanged calendars with no failing call creates nothing and deletes nothing.
C6_UpToDateMirrorUntouched ==
    \A i \in 1..Len(mirrorRuns) :
        LET run == mirrorRuns[i] IN
        /\ run.returned = "done" =>
             \A n \in 1..Len(run.src_events) :
                 ( /\ run.src_events[n].status # "cancelled"
                   /\ MirrorsOfSource(run, n) # {}
                   /\ \A m \in MirrorsOfSource(run, n) : UpToDate(m, run, n) )
                 => \A k \in 1..Len(run.calls) :
                        /\ run.calls[k].src # n
                        /\ \A m \in MirrorsOfSource(run, n) : run.calls[k].id # m.id
        /\ ( /\ i > 1
             /\ run.returned = "done"
             /\ mirrorRuns[i - 1].returned = "done"
             /\ run.stats.errors = 0
             /\ mirrorRuns[i - 1].stats.errors = 0 )
           => run.calls = <<>>

\* the keys of the principal events the run mirrors: of those that are not
\* cancelled, not from the feed and have a start date
MirroredKeys(run) ==
    { [set |-> TRUE, start |-> ev.start, end |-> ev.end, summary |-> ev.summary] :
        ev \in { x \in Range(run.src_events) :
                   /\ x.status # "cancelled"
                   /\ ~(TitleMentionsPlatform(x) /\ SomeEmailMentionsPlatform(x))
                   /\ x.start.kind \in {"date", "dateTime"} } }

\* the owned mirror events of dst_events whose key no mirrored principal event has
Vanished(run) ==
    { m \in Range(run.dst_events) :
        /\ m.ep.source = "tidycal"
        /\ m.ep.mirror_key.set
        /\ m.ep.mirror_key \notin MirroredKeys(run) }

ListedManaged(run) ==
    SelectSeq(run.listed, LAMBDA x : /\ x.booking_type_id = cfg.tidycal_booking_type_id
                                     /\ x.email = cfg.airbnb_contact_email)

\* ... those of one local date
ListedManagedOn(run, d) ==
    SelectSeq(ListedManaged(run), LAMBDA x : LocalDateOf(x.starts_at) = d)

\* C11. Cancel targeting: for each local date with listed managed bookings and no
\* feed slot the run issues exactly one cancel call, to the id of the first-listed
\* managed booking of the date, and none to the others of the date; for a date of
\* the feed with several managed bookings no create call is issued.
C11_CancelFirstOfDate ==
    \A i \in 1..Len(bookRuns) :
        LET run == bookRuns[i] IN
        ~run.raised =>
            \A d \in ListedManagedDates(run) :
                LET onDate == ListedManagedOn(run, d)
                    ids == { onDate[k].id : k \in 1..Len(onDate) }
                    calls == { k \in 1..Len(run.cancels) : run.cancels[k].booking_id \in ids }
                IN /\ d \notin FeedSlotDates =>
                        /\ Cardinality(calls) = 1
                        /\ \A k \in calls : run.cancels[k].booking_id = onDate[1].id
                   /\ (d \in FeedSlotDates /\ Len(onDate) > 1) =>
                        /\ calls = {}
                        /\ \A k \in 1..Len(run.creates) :
                             LocalDateOf(run.creates[k].starts_at) # d

\* a run that listed two managed bookings of a date the feed does not reserve
C11_Witness ==
    \E i \in 1..Len(bookRuns) :
        /\ ~bookRuns[i].raised
        /\ \E d \in ListedManagedDates(bookRuns[i]) \ FeedSlotDates :
             Len(ListedManagedOn(bookRuns[i], d)) = 2
        /\ Len(bookRuns[i].cancels) = 1

\* C12. Equal-calendar precondition: with src_calendar_id equal to dst_calendar_id
\* a mirror run issues no list, insert or delete call and returns created = 0,
\* deleted = 0, errors = 0.
C12_EqualIdsNoCalls ==
    cfg.tidycal_calendar_id = cfg.mirror_calendar_id =>
        \A i \in 1..Len(mirrorRuns) :
            /\ mirrorRuns[i].lists = <<>>
            /\ mirrorRuns[i].calls = <<>>
            /\ mirrorRuns[i].stats = [created |-> 0, deleted |-> 0, errors |-> 0]

\* a run was made for a property whose two calendar ids are equal, with events
\* in the calendar that a reconciliation would have mirrored
C12_Witness ==
    /\ cfg.tidycal_calendar_id = cfg.mirror_calendar_id
    /\ mirrorRuns # <<>>
    /\ \E k \in 1..Len(srcCal) : srcCal[k].status # "cancelled" /\ srcCal[k].summary = <<"Juan">>

\* the event of dst_events with this id
MirrorById(run, id) == CHOOSE m \in Range(run.dst_events) : m.id = id

WantsInsert(run, n) ==
    /\ run.src_events[n].status # "cancelled"
    /\ ~(TitleMentionsPlatform(run.src_events[n]) /\ SomeEmailMentionsPlatform(run.src_events[n]))
    /\ run.src_events[n].start.kind \in {"date", "dateTime"}
    /\ \A m \in MirrorsOfSource(run, n) : ~UpToDate(m, run, n)

\* C14. Mirror write-failure isolation: when an insert or delete call fails in a
\* run whose reads succeeded, the run does not raise, counts one error for each
\* failed call, and still issues the insert of every principal event that needs
\* one and the delete of every sweep candidate.
C14_WriteFailureIsolated ==
    \A i \in 1..Len(mirrorRuns) :
        LET run == mirrorRuns[i] IN
        (Len(run.lists) = 2 /\ \E k \in 1..Len(run.statuses) : run.statuses[k] # "ok") =>
            /\ run.returned = "done"
            /\ run.stats.errors = Cardinality({ k \in 1..Len(run.statuses) : run.statuses[k] # "ok" })
            /\ \A n \in 1..Len(run.src_events) :
                 WantsInsert(run, n) =>
                     \E k \in 1..Len(run.calls) : run.calls[k].op = "insert" /\ run.calls[k].src = n
            /\ \A m \in Vanished(run) :
                 \E k \in 1..Len(run.calls) : run.calls[k].op = "delete" /\ run.calls[k].id = m.id

\* C15. Pre-flight check: with the booking type id or the imported-contact email
\* missing, the run raises before any list, create or cancel call; with both
\* present no answer to a create or cancel call (conflict, already cancelled,
\* network failure, other status) makes it raise, and it returns the counts.
C15_RaisesOnlyPreFlight ==
    \A i \in 1..Len(bookRuns) :
        LET run == bookRuns[i]
            missing == cfg.tidycal_booking_type_id = 0 \/ cfg.airbnb_contact_email = ""
        IN /\ missing =>
                /\ run.raised
                /\ run.pages = 0
                /\ run.creates = <<>>
                /\ run.cancels = <<>>
           /\ ~missing =>
                /\ ~run.raised
                /\ run.stats.created
                     = Cardinality({ k \in 1..Len(run.creates) : run.createSt[k] = "201" })
                /\ run.stats.cancelled
                     = Cardinality({ k \in 1..Len(run.cancels) : run.cancelSt[k] \in {"200", "400"} })
                /\ run.stats.created + run.stats.cancelled + run.stats.errors
                     = Len(run.creates) + Len(run.cancels)

\* a run for a property that has its type id but no imported-contact email, over
\* a feed and a store that would have called for creates and cancels
C15_Witness ==
    /\ cfg.airbnb_contact_email = ""
    /\ cfg.tidycal_booking_type_id # 0
    /\ bookRuns # <<>>
    /\ bookRuns[1].raised
    /\ feed # <<>>
    /\ store # <<>>

\* C16. Conflict handling: a create call answered with a conflict counts as one
\* error and not as created, the run issues no second create call for its date,
\* and the create calls of the remaining dates and the cancel calls are issued.
C16_ConflictCountedNotRetried ==
    \A i \in 1..Len(bookRuns) :
        LET run == bookRuns[i] IN
        \A k \in 1..Len(run.creates) :
            run.createSt[k] = "409" =>
                /\ run.stats.created
                     = Cardinality({ j \in 1..Len(run.creates) : run.createSt[j] = "201" })
                /\ run.stats.errors
                     = Cardinality({ j \in 1..Len(run.creates) : run.createSt[j] # "201" })
                       + Cardinality({ j \in 1..Len(run.cancels) :
                                         run.cancelSt[j] \notin {"200", "400"} })
                /\ \A j \in 1..Len(run.creates) :
                     j # k => LocalDateOf(run.creates[j].starts_at)
                              # LocalDateOf(run.creates[k].starts_at)
                /\ \A d \in FeedSlotDates \ ListedManagedDates(run) :
                     \E j \in 1..Len(run.creates) : LocalDateOf(run.creates[j].starts_at) = d
                /\ \A d \in ListedManagedDates(run) \ FeedSlotDates :
                     \E j \in 1..Len(run.cancels) : run.cancels[j].day = d

\* the first of a run's create calls met a conflict, a later one succeeded and a
\* cancel call followed
C16_Witness ==
    \E i \in 1..Len(bookRuns) :
        /\ Len(bookRuns[i].creates) >= 2
        /\ bookRuns[i].createSt[1] = "409"
        /\ bookRuns[i].createSt[2] = "201"
        /\ bookRuns[i].cancels # <<>>
        /\ bookRuns[i].stats.created = 1

\* C17. Cancel idempotence: a cancel call answered 'already cancelled' is reported
\* as success and counted in cancelled, not in errors, like the cancel answered
\* with plain success; the booking is cancelled after either answer.
C17_AlreadyCancelledIsSuccess ==
    \A i \in 1..Len(bookRuns) :
        LET run == bookRuns[i]
            after == IF i < Len(bookRuns) THEN bookRuns[i + 1].storeBefore ELSE store
        IN /\ run.stats.cancelled
                = Cardinality({ k \in 1..Len(run.cancels) : run.cancelSt[k] \in {"200", "400"} })
           /\ run.stats.errors
                = Cardinality({ k \in 1..Len(run.creates) : run.createSt[k] # "201" })
                  + Cardinality({ k \in 1..Len(run.cancels) :
                                    run.cancelSt[k] \notin {"200", "400"} })
           /\ \A k \in 1..Len(run.cancels) :
                run.cancelSt[k] \in {"200", "400"} =>
                    BookingById(after, run.cancels[k].booking_id).cancelled

\* a run whose only cancel call was answered 'already cancelled'
C17_Witness ==
    \E i \in 1..Len(bookRuns) :
        /\ Len(bookRuns[i].cancels) = 1
        /\ bookRuns[i].cancelSt[1] = "400"
        /\ bookRuns[i].stats.cancelled = 1
        /\ bookRuns[i].stats.errors = 0

----------------------------------------------------------------------------
(* C18 *)

\* the fields the configuration of a property must give
ClaimedRequired ==
    {"name", "airbnb_ical_url", "tidycal_calendar_id", "tidycal_booking_type_id",
     "airbnb_contact_email", "init_time"}

IncompleteConfig ==
    \E i \in 1..Len(job.listings) : job.listings[i].absent \cap ClaimedRequired # {}

\* C18: when an entry of the configured list lacks a required field, sync_all fails
\* without having fetched a feed, called the booking store or called a calendar
\* for any property.
C18_IncompleteConfigFailsBeforeCalls ==
    IncompleteConfig /\ job.step # "start" =>
        /\ job.step = "raised"
        /\ \A k \in 1..Len(job.trace) : job.trace[k].phase \notin {"fetch", "book", "mirror"}

----------------------------------------------------------------------------
(* C19 *)

PhaseRank(phase) ==
    CASE phase = "auth" -> 0
      [] phase = "fetch" -> 1
      [] phase = "book" -> 2
      [] phase = "mirror" -> 3

\* the calls sync_all has issued for the property at position i
CallsOf(i) == SelectSeq(job.trace, LAMBDA e : e.listing = i)

\* C19: the calls of sync_all come property by property in the order of the
\* configured list, each for the property at that position; the calls of one
\* property are one feed fetch, then the booking reconciliation's, then the mirror
\* reconciliation's; a property's first call comes after the last call of the
\* property before it, and a completed sync_all has reconciled every property.
C19_SequentialInListOrder ==
    /\ \A a, b \in 1..Len(job.trace) :
          a < b => \/ job.trace[a].listing < job.trace[b].listing
                   \/ /\ job.trace[a].listing = job.trace[b].listing
                      /\ PhaseRank(job.trace[a].phase) <= PhaseRank(job.trace[b].phase)
    /\ \A k \in 1..Len(job.trace) :
          LET e == job.trace[k]
          IN e.listing # 0 =>
                /\ e.listing \in 1..job.pos
                /\ e.name = job.listings[e.listing].cfg.name
                /\ e.listing > 1 => CallsOf(e.listing - 1) # <<>>
    /\ \A i \in 1..Len(job.listings) :
          /\ CallsOf(i) # <<>> =>
                /\ CallsOf(i)[1].phase = "fetch"
                /\ Cardinality({ k \in 1..Len(CallsOf(i)) : CallsOf(i)[k].phase = "fetch" }) = 1
          /\ job.step = "done" \/ i < job.pos =>
                /\ \E k \in 1..Len(CallsOf(i)) : CallsOf(i)[k].phase = "book"
                /\ job.listings[i].cfg.mirror_calendar_id # "" =>
                      \E k \in 1..Len(CallsOf(i)) : CallsOf(i)[k].phase = "mirror"

\* both properties were reconciled, each with booking and calendar writes
C19_Witness ==
    /\ job.step = "done"
    /\ Len(job.listings) = 2
    /\ \A i \in 1..2 :
          /\ \E k \in 1..Len(CallsOf(i)) : CallsOf(i)[k].op = "bookings.create"
          /\ \E k \in 1..Len(CallsOf(i)) : CallsOf(i)[k].op = "events.insert"

----------------------------------------------------------------------------
(* C20 *)

\* the configured property whose principal calendar a mirror run read
PropertyOfRun(run) ==
    CHOOSE i \in 1..Len(job.listings) : job.listings[i].cfg.tidycal_calendar_id = run.lists[1]

\* C20: in a sync_all over several properties, the booking reconciliation of a
\* property cancels only bookings of that property's type id, and its mirror
\* reconciliation deletes only mirror events whose origin tag names that property
\* and its principal calendar, also when two properties share a mirror calendar id.
C20_CrossPropertyIsolation ==
    /\ \A i \in 1..Len(bookRuns) :
          \A k \in 1..Len(bookRuns[i].cancels) :
             BookingById(bookRuns[i].storeBefore, bookRuns[i].cancels[k].booking_id).booking_type_id
                = job.listings[i].cfg.tidycal_booking_type_id
    /\ mode = "all" =>
          \A i \in 1..Len(mirrorRuns) :
             LET run == mirrorRuns[i] IN
             \A k \in 1..Len(run.calls) :
                run.calls[k].op = "delete" =>
                   LET m == MirrorById(run, run.calls[k].id)
                       own == job.listings[PropertyOfRun(run)].cfg
                   IN /\ m.ep.listing_name = own.name
                      /\ m.ep.src_calendar_id = own.tidycal_calendar_id

----------------------------------------------------------------------------
(* C21 *)

\* every call of the run was answered with plain success
AllCallsSucceeded(run) ==
    /\ ~run.raised
    /\ run.failPage = 0
    /\ \A k \in 1..Len(run.createSt) : run.createSt[k] = "201"
    /\ \A k \in 1..Len(run.cancelSt) : run.cancelSt[k] = "200"

\* C21: a run in which every call succeeds, following an earlier run with the same
\* feed (whatever calls of that one failed), leaves the store such that, for the
\* dates of the run's window, the dates that have a live managed booking are the
\* feed slot dates.
C21_SuccessfulRunHeals ==
    \A i \in 2..Len(bookRuns) :
        LET run == bookRuns[i]
            after == IF i < Len(bookRuns) THEN bookRuns[i + 1].storeBefore ELSE store
        IN AllCallsSucceeded(run) =>
              \A d \in run.window[1]..run.window[2] :
                  d \in LiveManagedDates(after, cfg) <=> d \in FeedSlotDates

----------------------------------------------------------------------------
(* C22 *)

\* the first page the upstream answers empty, when it holds n bookings
FirstEmptyPage(n) == ((n + PageSize - 1) \div PageSize) + 1

\* C22: one list issues at most MAX_TIDYCAL_PAGES page requests, also when the
\* upstream has a non-empty page for every request; the last request is the first
\* one answered with an empty page, an error status or a network failure, or the
\* MAX_TIDYCAL_PAGES-th; what it returns are the bookings of the pages before.
C22_PaginationStops ==
    mode = "list" =>
    \A i \in 1..Len(normOut) :
        LET o == normOut[i]
            stop == Min2(IF o.failPage # 0 THEN Min2(o.failPage, FirstEmptyPage(Len(store)))
                         ELSE FirstEmptyPage(Len(store)),
                         MAX_TIDYCAL_PAGES)
            stopped_early == o.failPage = stop \/ FirstEmptyPage(Len(store)) = stop
        IN /\ o.requests <= MAX_TIDYCAL_PAGES
           /\ o.requests = stop
           /\ Len(o.returned)
                = Min2(Len(store), (IF stopped_early THEN stop - 1 ELSE stop) * PageSize)

\* the upstream had a non-empty page for every request, none failed, and the loop
\* stopped at the ceiling
C22_Witness ==
    /\ mode = "list"
    /\ normOut # <<>>
    /\ Len(store) > MAX_TIDYCAL_PAGES * PageSize
    /\ normOut[1].failPage = 0
    /\ normOut[1].requests = MAX_TIDYCAL_PAGES

----------------------------------------------------------------------------
(* C23 *)

WriteOps == {"bookings.create", "bookings.cancel", "events.insert", "events.delete"}

\* C23: when the feed fetch of a property fails, no create, cancel, insert or
\* delete is issued for that property, and sync_all does not end before the
\* properties after it in the list have been processed.
C23_FetchFailureStaysLocal ==
    job.raisedBy = "fetch_airbnb_calendar" =>
        /\ \A k \in 1..Len(CallsOf(job.pos)) : CallsOf(job.pos)[k].op \notin WriteOps
        /\ job.step \in {"raised", "done"} =>
              \A i \in (job.pos + 1)..Len(job.listings) : CallsOf(i) # <<>>

----------------------------------------------------------------------------
(* C24 *)

\* the snapshots built so far, with their inputs
SnapshotsBuilt ==
    { normOut[i] : i \in { k \in 1..Len(normOut) : normOut[k].fn = "build_availability_snapshot" } }

NoRepeat(xs) == \A a, b \in 1..Len(xs) : a # b => xs[a] # xs[b]

\* the collection given for the i-th listing of a call
GivenNights(o, i) ==
    LET slug == o.snapshot.listings[i].id
    IN IF slug \in DOMAIN o.blocked_by_slug THEN o.blocked_by_slug[slug] ELSE <<>>

\* generation timestamp, timezone id, one entry per input property in input order
SnapshotFrame(o) ==
    /\ o.snapshot.generated_at = NowLocal
    /\ o.snapshot.timezone = TIMEZONE
    /\ Len(o.snapshot.listings) = Len(o.listings)
    /\ \A i \in 1..Len(o.listings) :
          /\ o.snapshot.listings[i].name = o.listings[i].name
          /\ o.snapshot.listings[i].capacity = o.listings[i].info.capacity

----------------------------------------------------------------------------
(* C25 *)

\* the results of get_blocked_nights_for_listing so far
BlockedNightsResults ==
    { normOut[i] : i \in { k \in 1..Len(normOut) :
                             normOut[k].fn = "get_blocked_nights_for_listing" } }

\* C25: when the list succeeds, get_blocked_nights_for_listing returns exactly the
\* local dates, today or later, of the live bookings of the store that pass the
\* Booking Reconciler's scope filter for the property (type id and imported-contact
\* email), and never a date before today.
C25_BlockedAreManagedFromToday ==
    mode = "snap" =>
    \A o \in BlockedNightsResults :
        /\ \A k \in 1..Len(o.nights) : o.nights[k] >= Today
        /\ o.failPage = 0 =>
              Range(o.nights) = { d \in LiveManagedDates(store, cfg) : d >= Today }

----------------------------------------------------------------------------
(* C26 *)

\* what raises for a configuration or a credential error
FatalConfigOrCredential ==
    {"get_google_service", "load_listings", "sync_listing", "sync_airbnb_to_tidycal"}

\* C26: the trigger answers 200 with the counts of every property whenever
\* sync_listing returned counts for every property, whatever the error counts;
\* it answers 500 only when a configuration or credential error was raised.
C26_FailureOnlyWhenFatal ==
    job.answer.code # 0 =>
        /\ job.step = "done" =>
              /\ job.answer.code = 200
              /\ DOMAIN job.answer.details = { job.listings[i].cfg.name : i \in 1..Len(job.listings) }
        /\ job.answer.code = 200 => job.step = "done"
        /\ job.answer.code # 200 =>
              /\ job.answer.code = 500
              /\ job.raisedBy \in FatalConfigOrCredential

----------------------------------------------------------------------------
(* C27 *)

\* the calls of a run made for its n-th principal event, in order
CallsFor(run, n) == SelectSeq(run.calls, LAMBDA c : c.src = n)

\* the owned mirror events of dst_events with the key of principal event ev
OwnedWithKey(run, ev) ==
    { i \in 1..Len(run.dst_events) :
        /\ run.dst_events[i].ep.source = "tidycal"
        /\ run.dst_events[i].ep.mirror_key
             = [set |-> TRUE, start |-> ev.start, end |-> ev.end, summary |-> ev.summary] }

\* the all-day mirror event wanted for principal event ev
Wanted(ev, listing_cfg) ==
    [summary |-> <<"[Block", "Airbnb]">> \o ev.summary,
     description |-> ev.description \o <<"Espejo", "TidyCal", "para">> \o listing_cfg.name,
     start_date |-> ev.start.day,
     end_date |-> ev.start.day + 1,
     ep |-> [source |-> "tidycal", listing_name |-> listing_cfg.name,
             mirror_key |-> [set |-> TRUE, start |-> ev.start, end |-> ev.end,
                             summary |-> ev.summary],
             src_calendar_id |-> listing_cfg.tidycal_calendar_id]]

\* the n-th principal event of the run is mirrored, has a title, and the mirror
\* calendar holds an owned event with its key whose fields are not the wanted ones
NeedsReplace(run, n) ==
    LET ev == run.src_events[n]
    IN /\ [set |-> TRUE, start |-> ev.start, end |-> ev.end, summary |-> ev.summary]
            \in MirroredKeys(run)
       /\ ev.status # "cancelled"
       /\ ~(TitleMentionsPlatform(ev) /\ SomeEmailMentionsPlatform(ev))
       /\ ev.start.kind \in {"date", "dateTime"}
       /\ ev.summary # <<>>
       /\ OwnedWithKey(run, ev) # {}
       /\ LET old == run.dst_events[SetMax(OwnedWithKey(run, ev))]
          IN [summary |-> old.summary, description |-> old.description,
              start_date |-> old.start_date, end_date |-> old.end_date, ep |-> old.ep]
               # Wanted(ev, cfg)

\* C27: for a principal event whose owned mirror event (same stable key) differs
\* from the wanted one, a run that completes issues for it exactly a delete of the
\* old mirror event and then an insert of the wanted one, in that order; the run
\* counts in deleted the deletes that succeeded and in created the inserts that
\* succeeded, so one and one for a replacement whose two calls succeed.
C27_DeleteThenInsert ==
    \A i \in 1..Len(mirrorRuns) :
        LET run == mirrorRuns[i] IN
        run.returned = "done" =>
            /\ \A n \in 1..Len(run.src_events) :
                  NeedsReplace(run, n) =>
                     LET ev == run.src_events[n]
                         old == run.dst_events[SetMax(OwnedWithKey(run, ev))]
                         cs == CallsFor(run, n)
                     IN /\ Len(cs) = 2
                        /\ cs[1].op = "delete" /\ cs[1].id = old.id
                        /\ cs[2].op = "insert" /\ cs[2].body = Wanted(ev, cfg)
            /\ run.stats.deleted
                 = Cardinality({ k \in 1..Len(run.calls) :
                                   run.calls[k].op = "delete" /\ run.statuses[k] = "ok" })
            /\ run.stats.created
                 = Cardinality({ k \in 1..Len(run.calls) :
                                   run.calls[k].op = "insert" /\ run.statuses[k] = "ok" })

\* a run of app/services/mirror_sync.py replaced the mirror of a principal event
\* whose description had changed, both calls succeeded, and counted one and one
C27_Witness ==
    \E i \in 1..Len(mirrorRuns) :
        LET run == mirrorRuns[i] IN
        /\ impl = "app.services.mirror_sync"
        /\ run.returned = "done"
        /\ run.src_events = <<EvDirectNote>>
        /\ NeedsReplace(run, 1)
        /\ run.statuses = <<"ok", "ok">>
        /\ run.stats.deleted = 1
        /\ run.stats.created = 1

----------------------------------------------------------------------------
(* C28 *)

\* the live managed bookings the store held before a run, on feed slot dates
LiveOnFeedDate(run) ==
    { b \in Range(run.storeBefore) :
        /\ b.booking_type_id = cfg.tidycal_booking_type_id
        /\ b.email = cfg.airbnb_contact_email
        /\ ~b.cancelled
        /\ LocalDateOf(b.starts_at) \in FeedSlotDates }

----------------------------------------------------------------------------
(* C29 *)

\* C29. Window coverage: in a run whose page requests all succeed, every live
\* managed booking whose local date is a feed slot date (the latest slot date
\* included, also at or beyond today + horizon) is returned by the window fetch,
\* and no create call is issued for its date.
C29_WindowCoversFeedDates ==
    \A i \in 1..Len(bookRuns) :
        LET run == bookRuns[i] IN
        (~run.raised /\ run.failPage = 0) =>
            \A b \in LiveOnFeedDate(run) :
                /\ b \in Range(run.listed)
                /\ LocalDateOf(b.starts_at) \notin CreateDates(run)

----------------------------------------------------------------------------
(* C30 *)

\* the insert calls of a run
InsertCalls(run) == { k \in 1..Len(run.calls) : run.calls[k].op = "insert" }

\* C30. Day-granularity block: every mirror event inserted for a principal
\* event is an all-day event whose start date is the calendar date of the
\* principal event's start and whose end date is that date + 1 day, whatever
\* the principal event's own end.
C30_OneDayBlock ==
    \A i \in 1..Len(mirrorRuns) :
        LET run == mirrorRuns[i] IN
        \A k \in InsertCalls(run) :
            LET call == run.calls[k]
                ev == run.src_events[call.src]
            IN /\ call.src \in 1..Len(run.src_events)
               /\ ev.start.kind \in {"date", "dateTime"}
               /\ call.body.start_date = ev.start.day
               /\ call.body.end_date = ev.start.day + 1

\* a run inserted the mirror of a principal event that ends two days after it
\* starts
C30_Witness ==
    \E i \in 1..Len(mirrorRuns) :
        LET run == mirrorRuns[i] IN
        \E k \in InsertCalls(run) :
            LET ev == run.src_events[run.calls[k].src] IN
            /\ ev.end.kind = "date"
            /\ ev.end.day = ev.start.day + 2
            /\ run.statuses[k] = "ok"

----------------------------------------------------------------------------
(* C31 *)

\* the slots of the i-th feed entry, as the Normalizer expands it
EntrySlots(i) == _build_airbnb_daily_slots_for_component(feed[i], cfg)

\* the first feed entry that has a slot of local date d
FirstEntryOn(d) ==
    CHOOSE i \in 1..Len(feed) :
        /\ \E k \in 1..Len(EntrySlots(i)) : EntrySlots(i)[k].date = d
        /\ \A j \in 1..(i - 1) : \A k \in 1..Len(EntrySlots(j)) : EntrySlots(j)[k].date # d

\* C31. One slot per date: for any feed, also with overlapping or repeated
\* reservation entries, the slots the Booking Reconciler diffs against hold at
\* most one slot per local date, the one of the first entry that has the date,
\* and a run issues at most one create call per date.
C31_OneSlotPerDate ==
    LET airbnb_by_date == AirbnbByDate(feed, cfg) IN
    /\ \A a, b \in 1..Len(airbnb_by_date) :
          airbnb_by_date[a].date = airbnb_by_date[b].date => a = b
    /\ \A a \in 1..Len(airbnb_by_date) :
          LET first == EntrySlots(FirstEntryOn(airbnb_by_date[a].date))
          IN \E k \in 1..Len(first) : first[k] = airbnb_by_date[a]
    /\ \A a, b \in 1..Len(airbnb_by_date) :
          a < b => FirstEntryOn(airbnb_by_date[a].date) <= FirstEntryOn(airbnb_by_date[b].date)
    /\ \A i \in 1..Len(bookRuns) :
          \A k, l \in 1..Len(bookRuns[i].creates) :
              bookRuns[i].creates[k].day = bookRuns[i].creates[l].day => k = l

\* a run over a feed in which two entries reserve the same night issued one
\* create call for that night
C31_Witness ==
    \E i, j \in 1..Len(feed) :
        /\ i < j
        /\ \E k \in 1..Len(EntrySlots(i)), l \in 1..Len(EntrySlots(j)) :
              /\ EntrySlots(i)[k].date = EntrySlots(j)[l].date
              /\ \E r \in 1..Len(bookRuns) :
                    \E c \in 1..Len(bookRuns[r].creates) :
                        /\ bookRuns[r].creates[c].day = EntrySlots(i)[k].date
                        /\ bookRuns[r].createSt[c] = "201"

----------------------------------------------------------------------------
(* C32 *)

\* C32. Degenerate entry: an entry labelled as a reservation whose end date is
\* on or before its start date yields exactly one slot, dated at the start date.
C32_DegenerateEntryOneSlot ==
    \A i \in 1..Len(normOut) :
        LET c == normOut[i].component
            slots == normOut[i].slots
        IN (IsReservation(c.summary) /\ c.dtend <= c.dtstart) =>
              /\ Len(slots) = 1
              /\ slots[1].date = c.dtstart

\* an entry labelled as a reservation that ends before it starts was expanded
C32_Witness ==
    /\ normOut # <<>>
    /\ IsReservation(normOut[1].component.summary)
    /\ normOut[1].component.dtend < normOut[1].component.dtstart
    /\ normOut[1].slots # <<>>

----------------------------------------------------------------------------
(* C33 *)

\* the last mirror run read both calendars and every call it issued succeeded
LastRunAllOk ==
    /\ mirrorRuns # <<>>
    /\ LET run == mirrorRuns[Len(mirrorRuns)]
       IN /\ run.returned = "done"
          /\ \A k \in 1..Len(run.statuses) : run.statuses[k] = "ok"

\* the principal events of the window that are mirrored: not cancelled, not from
\* the feed, with a start date
MirroredSources ==
    { n \in 1..Len(srcCal) :
        /\ srcCal[n].status # "cancelled"
        /\ ~_is_airbnb_google_event(srcCal[n].summary, srcCal[n].description,
                                    srcCal[n].attendees)
        /\ srcCal[n].start.kind \in {"date", "dateTime"} }

KeyOfSource(n) ==
    [set |-> TRUE, start |-> srcCal[n].start, end |-> srcCal[n].end,
     summary |-> srcCal[n].summary]

\* the owned mirror events the mirror calendar holds with key k
OwnedAt(k) ==
    { i \in 1..Len(dstCal) :
        /\ dstCal[i].ep.source = "tidycal"
        /\ dstCal[i].ep.mirror_key.set
        /\ dstCal[i].ep.mirror_key = k }

\* each mirrored key has an owned mirror event with the desired day block
C33_EveryKeyHasItsBlock ==
    LastRunAllOk =>
        \A n \in MirroredSources :
            \E i \in OwnedAt(KeyOfSource(n)) :
                /\ dstCal[i].start_date = srcCal[n].start.day
                /\ dstCal[i].end_date = srcCal[n].start.day + 1

\* no owned mirror event has a key outside the mirrored keys
C33_NoStrayMirror ==
    LastRunAllOk =>
        \A i \in 1..Len(dstCal) :
            (dstCal[i].ep.source = "tidycal" /\ dstCal[i].ep.mirror_key.set)
            => \E n \in MirroredSources : dstCal[i].ep.mirror_key = KeyOfSource(n)

\* C33. Mirror convergence: after a mirror run in which every call succeeds, the
\* owned mirror events of the mirror calendar correspond one-to-one with the
\* keys of the mirrored principal events: each key has one owned mirror event,
\* with the desired day block, and no owned mirror event has another key.
C33_MirrorConverges ==
    /\ C33_EveryKeyHasItsBlock
    /\ C33_NoStrayMirror
    /\ LastRunAllOk =>
          \A n \in MirroredSources : Cardinality(OwnedAt(KeyOfSource(n))) = 1

----------------------------------------------------------------------------
(* C34 *)

\* the live managed bookings of the store on local date d
LiveManagedOn(d) ==
    { i \in 1..Len(store) :
        /\ store[i].booking_type_id = cfg.tidycal_booking_type_id
        /\ store[i].email = cfg.airbnb_contact_email
        /\ ~store[i].cancelled
        /\ store[i].starts_at.valid
        /\ LocalDateOf(store[i].starts_at) = d }

\* C34. Unique managed booking per date: starting from a store with at most one
\* live managed booking per local date, after any sequence of runs (also runs
\* whose list read is cut short) the store never holds two live managed
\* bookings of the property on one local date.
C34_UniqueManagedPerDate ==
    \A i \in 1..Len(store) :
        store[i].starts_at.valid
        => Cardinality(LiveManagedOn(LocalDateOf(store[i].starts_at))) <= 1

----------------------------------------------------------------------------
(* C35 *)

\* C35. Unique mirror per key: after any sequence of mirror runs that starts
\* from an empty mirror calendar (also runs in which a replace's delete fails and
\* its insert succeeds, and runs over two principal events of equal start, end
\* and summary) the mirror calendar never holds two owned mirror events with the
\* same stable key.
C35_UniqueMirrorPerKey ==
    \A a, b \in 1..Len(dstCal) :
        ( /\ dstCal[a].ep.source = "tidycal" /\ dstCal[a].ep.mirror_key.set
          /\ dstCal[b].ep.source = "tidycal" /\ dstCal[b].ep.mirror_key.set
          /\ dstCal[a].ep.mirror_key = dstCal[b].ep.mirror_key )
        => a = b

----------------------------------------------------------------------------
(* C36 *)

\* a run in which the list of the principal or of the mirror calendar failed:
\* it was answered with an error, or it got no response
ListFailed(run) ==
    \/ run.returned \in {"src-list-failed", "dst-list-failed"}
    \/ run.returned = "raised" /\ run.calls = <<>>

\* when a list fails, no insert and no delete is issued and the mirror calendar
\* is left as it was
C36_ReadFailureNoWrite ==
    [][\A i \in 1..Len(mirrorRuns') :
          (i > Len(mirrorRuns) /\ ListFailed(mirrorRuns'[i]))
          => mirrorRuns'[i].calls = <<>> /\ dstCal' = dstCal]_vars

\* C36. Read failure means no write: when listing the principal calendar or
\* listing the mirror calendar fails, the run issues no insert and no delete and
\* returns created = 0, deleted = 0, errors = 1.
C36_ReadFailureReturnsOneError ==
    \A i \in 1..Len(mirrorRuns) :
        LET run == mirrorRuns[i] IN
        ListFailed(run) =>
            /\ run.calls = <<>>
            /\ run.returned # "raised"
            /\ run.stats = [created |-> 0, deleted |-> 0, errors |-> 1]

----------------------------------------------------------------------------
(* C37 *)

\* the events a run found in the mirror calendar that lack the origin tag: no
\* source marker, or no mirror_key
Untagged(run) ==
    { ev \in Range(run.dst_events) : ev.ep.source # "tidycal" \/ ~ev.ep.mirror_key.set }

\* C37. Foreign mirror events untouched: an event of the mirror calendar that
\* lacks the origin tag (no source marker, or no mirror_key) is never the target
\* of a delete call, whatever the principal calendar holds.
C37_UntaggedNeverDeleted ==
    \A i \in 1..Len(mirrorRuns) :
        LET run == mirrorRuns[i] IN
        \A ev \in Untagged(run) :
            \A k \in 1..Len(run.calls) :
                run.calls[k].op = "delete" => run.calls[k].id # ev.id

\* a run found an event that carries the key of a principal event it mirrors but
\* no source marker, and an event with the source marker but no key; it issued
\* delete calls for owned mirror events and left both in the mirror calendar
C37_Witness ==
    \E i \in 1..Len(mirrorRuns) :
        LET run == mirrorRuns[i] IN
        /\ run.returned = "done"
        /\ \E ev \in Untagged(run) : ev.ep.mirror_key \in run.src_keys
        /\ \E ev \in Untagged(run) : ev.ep.source = "tidycal"
        /\ \E k \in 1..Len(run.calls) : run.calls[k].op = "delete" /\ run.statuses[k] = "ok"
        /\ \A ev \in Untagged(run) : \E j \in 1..Len(dstCal) : dstCal[j] = ev

----------------------------------------------------------------------------
(* C38 *)

\* the principal events of a run that are withdrawn: cancelled, classified as
\* from the feed, or without a parsable start date
Withdrawn(run) ==
    { n \in 1..Len(run.src_events) :
        LET ev == run.src_events[n] IN
        \/ ev.status = "cancelled"
        \/ TitleMentionsPlatform(ev) /\ SomeEmailMentionsPlatform(ev)
        \/ ev.start.kind \notin {"date", "dateTime"} }

\* the stable key of the n-th principal event of a run
KeyIn(run, n) ==
    [set |-> TRUE, start |-> run.src_events[n].start, end |-> run.src_events[n].end,
     summary |-> run.src_events[n].summary]

\* C38. Withdrawn source events lose their mirror: a principal event that is
\* cancelled, classified as from the feed, or without a parsable start date
\* never contributes its key to the keys the run observed and never causes an
\* insert; an owned mirror event that carries its key, and the key of no
\* mirrored event, gets the delete call of the run's sweep (in a run that reads
\* both calendars and reaches its sweep).
C38_WithdrawnLoseMirror ==
    \A i \in 1..Len(mirrorRuns) :
        LET run == mirrorRuns[i] IN
        \A n \in Withdrawn(run) :
            /\ \A k \in 1..Len(run.calls) : run.calls[k].src # n
            /\ KeyIn(run, n) \notin MirroredKeys(run) =>
                  /\ KeyIn(run, n) \notin run.src_keys
                  /\ run.returned = "done" =>
                        \A m \in Range(run.dst_events) :
                            (m.ep.source = "tidycal" /\ m.ep.mirror_key = KeyIn(run, n))
                            => \E k \in 1..Len(run.calls) :
                                  /\ run.calls[k].op = "delete"
                                  /\ run.calls[k].src = 0
                                  /\ run.calls[k].id = m.id

\* a run found a cancelled principal event and the owned mirror event inserted
\* for it before the cancellation; its sweep deleted that mirror event
C38_Witness ==
    \E i \in 1..Len(mirrorRuns) :
        LET run == mirrorRuns[i] IN
        /\ run.returned = "done"
        /\ \E n \in Withdrawn(run) :
              /\ run.src_events[n].status = "cancelled"
              /\ \E m \in Range(run.dst_events) :
                    /\ m.ep.source = "tidycal"
                    /\ m.ep.mirror_key = KeyIn(run, n)
                    /\ \E k \in 1..Len(run.calls) :
                          /\ run.calls[k].op = "delete" /\ run.calls[k].id = m.id
                          /\ run.statuses[k] = "ok"
                    /\ i = Len(mirrorRuns) => \A j \in 1..Len(dstCal) : dstCal[j].id # m.id

----------------------------------------------------------------------------
(* C39 *)

\* the calls of a mirror run answered "ok" / not answered "ok", by operation
MirrorCallsOk(run, op) ==
    Cardinality({ k \in 1..Len(run.calls) : run.calls[k].op = op /\ run.statuses[k] = "ok" })
MirrorCallsFailed(run) ==
    Cardinality({ k \in 1..Len(run.calls) : run.statuses[k] # "ok" })

\* the list calls of a mirror run that failed
MirrorListsFailed(run) ==
    IF \/ run.returned \in {"src-list-failed", "dst-list-failed"}
       \/ run.returned = "raised" /\ run.calls = <<>>
    THEN 1 ELSE 0

\* every Booking Reconciler run counts each create and cancel call once
C39_BookingCounts ==
    \A i \in 1..Len(bookRuns) :
        LET run == bookRuns[i] IN
        /\ run.stats.created + run.stats.cancelled + run.stats.errors
             = Len(run.creates) + Len(run.cancels)
        /\ run.stats.created
             = Cardinality({ k \in 1..Len(run.creates) : run.createSt[k] = "201" })
        /\ run.stats.cancelled
             = Cardinality({ k \in 1..Len(run.cancels) : run.cancelSt[k] \in {"200", "400"} })

\* every mirror run that returns counts returns those of its calls
C39_MirrorCountsWhenReturned ==
    \A i \in 1..Len(mirrorRuns) :
        LET run == mirrorRuns[i] IN
        run.returned # "raised" =>
            /\ run.stats.created = MirrorCallsOk(run, "insert")
            /\ run.stats.deleted = MirrorCallsOk(run, "delete")
            /\ run.stats.errors = MirrorListsFailed(run) + MirrorCallsFailed(run)

\* C39. Count accounting: at the end of every Booking Reconciler run created +
\* cancelled + errors is the number of create and cancel calls issued, each call
\* counted once; at the end of every mirror run created is the number of
\* successful inserts, deleted the number of successful deletes and errors the
\* number of failed list, insert and delete calls.
C39_CountAccounting ==
    /\ C39_BookingCounts
    /\ \A i \in 1..Len(mirrorRuns) :
          LET run == mirrorRuns[i] IN
          /\ run.returned # "raised"
          /\ run.stats.created = MirrorCallsOk(run, "insert")
          /\ run.stats.deleted = MirrorCallsOk(run, "delete")
          /\ run.stats.errors = MirrorListsFailed(run) + MirrorCallsFailed(run)

----------------------------------------------------------------------------
(* C40 *)

\* the calls implementation `which` issues for the calendars a run read
CallsOf_Impl(run, which) ==
    Step3Calls(run.src_events, 1, run.dst_events, cfg.name, cfg.tidycal_calendar_id, which)
    \o SweepCalls(run.dst_events, SourceKeys(run.src_events))

\* the calendar's side of those calls when each is answered "ok"
ServedAllOk(run, which) ==
    LET calls == CallsOf_Impl(run, which)
    IN ServeCalendar(run.dst_events, nextEventId, calls, AllOk(Len(calls)))

\* the mirror calendar they leave, without the ids the calendar assigns
LeftBy(run, which) ==
    LET cal == ServedAllOk(run, which).cal
    IN [i \in 1..Len(cal) |-> [cal[i] EXCEPT !.id = 0]]

\* a run that read both calendars and in which no call failed, over calendars
\* for which neither implementation has a call that must fail
RanAllOk(run) ==
    /\ run.returned = "done"
    /\ \A k \in 1..Len(run.statuses) : run.statuses[k] = "ok"
    /\ ServedAllOk(run, "app.sync").possible
    /\ ServedAllOk(run, "app.services.mirror_sync").possible

\* for the calendars of every such run the two implementations leave a mirror
\* calendar with the same events
C40_SameEventsLeft ==
    \A i \in 1..Len(mirrorRuns) :
        RanAllOk(mirrorRuns[i]) =>
            Range(LeftBy(mirrorRuns[i], "app.sync"))
            = Range(LeftBy(mirrorRuns[i], "app.services.mirror_sync"))

\* C40. Two implementations agree: for the same principal and mirror calendar
\* contents and no failing call, the mirror reconciler of app/sync.py and the one
\* of app/services/mirror_sync.py issue the same sequence of insert and delete
\* calls and leave the mirror calendar in the same final state.
C40_ImplementationsAgree ==
    \A i \in 1..Len(mirrorRuns) :
        LET run == mirrorRuns[i] IN
        RanAllOk(run) =>
            /\ run.calls = CallsOf_Impl(run, impl)
            /\ CallsOf_Impl(run, "app.sync") = CallsOf_Impl(run, "app.services.mirror_sync")
            /\ Range(LeftBy(run, "app.sync")) = Range(LeftBy(run, "app.services.mirror_sync"))

====
